---- MODULE Spec2Model ----
(***************************************************************************)
(* A model of the in-memory Reddit engine (internal/engine/engine.go).     *)
(*                                                                         *)
(* The engine keeps six sync.Map stores and takes no lock around a whole   *)
(* handler: each Load, Store, Delete and Range is atomic on its own and    *)
(* nothing more is.  The module therefore gives every handler twice:       *)
(*   - as one atomic action (RegisterAccount, Vote, ...), the handler run  *)
(*     from its first line to its return with no other call in between;    *)
(*     the sequential specifications are built from these;                 *)
(*   - as a chain of steps (RegisterAccount_Range, Vote_IncRead, ...), one *)
(*     per access to shared memory, taken by the calling goroutine p; the  *)
(*     concurrent specifications interleave these steps.                   *)
(***************************************************************************)
EXTENDS Integers, FiniteSets, Sequences, TLC

\* ------------------------------------------------------------------ bounds
\* The users, communities, posts, comments and messages a sequential run may
\* create in all.
MaxEntities == 5
\* The goroutines of a concurrent run, and the calls each of them makes.
NProcs == 2
MaxCalls == 2

\* ------------------------------------------------------------------- state
VARIABLES
    users,       \* e.users:      user id      -> User
    subreddits,  \* e.subreddits: subreddit id -> SubReddit (Members is its sync.Map)
    posts,       \* e.posts:      post id      -> Post
    comments,    \* e.comments:   comment id   -> Comment
    votes,       \* e.votes:      vote id      -> *Vote, the n of the object <<vote id, n>>
    voteObjs,    \* the Vote objects allocated so far: <<vote id, n>> -> Vote
    messages,    \* e.messages:   message id   -> DirectMessage
    last,        \* the call that returned last (sequential specifications)
    pc,          \* goroutine -> its position in the handler it runs
    loc,         \* goroutine -> the handler's arguments and local variables
    calls,       \* goroutine -> number of calls it has started
    seen,        \* (history) goroutine -> the feeds its GetFeed call could have
                 \* returned: the feed of its user in each state since the call began
    metrics,     \* the Collector of the gRPC server: c.stats and c.latencies, and
                 \* (history) the server calls made and those whose engine call failed
    sim          \* the Simulator: stopChan, wg, the tickers, activeUsers; where the
                 \* caller of Stop is; whether the process has panicked

stores == <<users, subreddits, posts, comments, votes, voteObjs, messages>>
procs == <<pc, loc, calls, seen, metrics, sim>>
vars == <<users, subreddits, posts, comments, votes, voteObjs, messages, last, pc, loc, calls, seen,
          metrics, sim>>

Procs == 1..NProcs

\* ------------------------------------------------------------- identifiers
\* generateID: 16 random bytes in hex.  Collisions are not modelled: the n-th
\* id a store receives is <<kind, n>> (entities are never deleted, so the ids
\* of a store are 1..n).  Ids of different stores never coincide.
generateID(kind, store) == <<kind, Cardinality(DOMAIN store) + 1>>

\* What a caller passes as an id of a store: one of the ids the store holds,
\* or <<kind, 0>>, which no store ever holds, for an id that is not stored
\* (every id that is not stored is the same failed Load).
StoredOrNot(kind, store) == DOMAIN store \cup {<<kind, 0>>}
Usernames == {"alice", "bob"}

\* The id a caller passes for "none": the nil parentCommentID of CreateComment.
Nil == <<"nil", 0>>

\* A password, as far as bcrypt tells passwords apart: head is its first 72
\* bytes, tail the bytes after them ("" when it has at most 72 bytes).
Password(head, tail) == [head |-> head, tail |-> tail]

\* A short password, another short one, one of exactly 72 bytes, and that one
\* with a 73rd byte.
Passwords ==
    {Password("secret", ""), Password("other", ""),
     Password("72 bytes", ""), Password("72 bytes", "x")}

\* The password of the accounts of the runs that are not about passwords.
SomePassword == Password("secret", "")

\* golang.org/x/crypto/bcrypt.  The Blowfish key schedule reads 72 bytes of
\* key: the bytes of a password after its 72nd never reach the hash.
bcryptKey(password) == password.head

\* The hash GenerateFromPassword returns, named by the password it was made
\* from (its salt is random: no two hashes are compared with each other).
GenerateFromPassword(password) == [hashOf |-> password]

\* (mutant) a comparison that accepts every password.
CompareHashAndPassword_Any(hashedPassword, password) == TRUE

\* CompareHashAndPassword hashes password with the salt of hashedPassword and
\* compares: it accepts when bcrypt read the same key from both passwords.
CompareHashAndPassword(hashedPassword, password) ==
    bcryptKey(hashedPassword.hashOf) = bcryptKey(password)

\* A password GenerateFromPassword may refuse: releases of the library since
\* 2022 return an error for more than 72 bytes, the older ones hash the first
\* 72; the source does not pin the release.
TooLong(password) == password.tail # ""

\* The errors, by the text of errors.New in the source.
OK == "nil"
ErrUsernameExists == "username already exists"
ErrCreatorNotFound == "creator not found"
ErrSubredditNotFound == "subreddit not found"
ErrUserNotFound == "user not found"
ErrAuthorNotFound == "author not found"
ErrNotMember == "user is not a member of this subreddit"
ErrTargetNotFound == "target not found"
ErrPasswordTooLong == "bcrypt: password length exceeds 72 bytes"
ErrInvalidPassword == "invalid password"
ErrPostNotFound == "post not found"
ErrParentNotFound == "parent comment not found"
ErrSenderNotFound == "sender not found"
ErrRecipientNotFound == "recipient not found"
ErrMessageNotFound == "message not found"
ErrUnauthorized == "unauthorized access to message"

\* (mutant) a Store that empties the map before it stores.
Store_Alone(m, k, v) == [x \in {k} |-> v]

\* A function with one more (or one replaced) mapping: sync.Map.Store.
Store(m, k, v) == [x \in DOMAIN m \cup {k} |-> IF x = k THEN v ELSE m[x]]

EmptyMap == [x \in {} |-> 0]

\* What a returned call leaves for its caller: the handler's name, the error
\* (OK for nil) and the value (the id of the entity a handler created, the
\* set of ids of a list, {} when the handler returns only an error).
Returned(op, err, val) == [op |-> op, err |-> err, val |-> val]

NoCall == Returned("none", OK, {})

\* A goroutine's arguments and locals, before its first call.  existingVote
\* is the *Vote that votes.Load returned (0 for nil); tmp holds the value a
\* counter had when x++ or x-- read it; checked (history) names the checks of
\* CreatePost the call has passed; endpoint is the name under which the gRPC
\* server's handler that made the call records it ("" for a direct call); i,
\* attempts (history: the outcome of each dial) and cancelled (cancel() was
\* called) belong to NewRedditClient.
NoLocals ==
    [op |-> "none", userID |-> <<"user", 0>>, targetID |-> <<"post", 0>>,
     subredditID |-> <<"sub", 0>>, username |-> "", password |-> SomePassword,
     isUpvote |-> FALSE,
     isPost |-> FALSE, exists |-> FALSE, existingVote |-> 0, tmp |-> 0,
     userSubscriptions |-> {}, checked |-> {}, endpoint |-> "",
     i |-> 0, attempts |-> <<>>, cancelled |-> FALSE,
     err |-> OK, val |-> {}]

\* The endpoints of the gRPC server whose metrics are followed.
Endpoints == {"JoinSubreddit", "CreatePost"}

\* NewCollector: no EndpointStats yet (an endpoint without an entry counts as
\* one with zeros), no error, no latency sample.  latencies is the length of
\* c.latencies; durations are not kept.
NoMetrics ==
    [EndpointStats |-> [e \in Endpoints |-> [CallCount |-> 0, ErrorCount |-> 0]],
     ErrorCount |-> 0, latencies |-> 0,
     made |-> [e \in Endpoints |-> 0], failed |-> [e \in Endpoints |-> 0]]

\* No Simulator: NewSimulator's open stopChan and zero WaitGroup, no ticker,
\* nothing in activeUsers, nobody calling Stop.
NoSim ==
    [stopChan |-> "open", wg |-> 0, stop |-> "none",
     ticker |-> [p \in Procs |-> FALSE],
     activeUsers |-> [p \in Procs |-> "absent"],
     panicked |-> FALSE]

\* NewRedditEngine: every store empty; no goroutine is inside a handler.
Init ==
    /\ users = EmptyMap
    /\ subreddits = EmptyMap
    /\ posts = EmptyMap
    /\ comments = EmptyMap
    /\ votes = EmptyMap
    /\ voteObjs = EmptyMap
    /\ messages = EmptyMap
    /\ last = NoCall
    /\ pc = [p \in Procs |-> "idle"]
    /\ loc = [p \in Procs |-> NoLocals]
    /\ calls = [p \in Procs |-> 0]
    /\ seen = [p \in Procs |-> {}]
    /\ metrics = NoMetrics
    /\ sim = NoSim

\* ------------------------------------------------- whole handlers (atomic)

\* The model's cap on the entities a run creates; the engine has none.
HasRoom ==
    Cardinality(DOMAIN users) + Cardinality(DOMAIN subreddits) + Cardinality(DOMAIN posts)
        + Cardinality(DOMAIN comments) + Cardinality(DOMAIN messages)
        < MaxEntities

\* The cap as CreateComment applies it: beyond the cap there is room for one
\* reply, the first comment that has a parent.
HasRoomForComment(parentCommentID) ==
    \/ HasRoom
    \/ /\ parentCommentID \in DOMAIN comments
       /\ \A c \in DOMAIN comments : comments[c].ParentID \notin DOMAIN comments

\* (mutant) the Range comparing usernames without regard to letter case.
ToLower(s) == IF s = "Alice" THEN "alice" ELSE s

UsernameExists_IgnoreCase(username) ==
    \E id \in DOMAIN users : ToLower(users[id].Username) = ToLower(username)

\* The Range of RegisterAccount: some stored user has exactly this username
\* (Go compares strings byte by byte).
UsernameExists(username) == \E id \in DOMAIN users : users[id].Username = username

NewUser(username, password) ==
    [Username |-> username, Password |-> GenerateFromPassword(password), Karma |-> 0]

RegisterAccount(username, password) ==
    IF UsernameExists(username)
    THEN /\ last' = Returned("RegisterAccount", ErrUsernameExists, {})
         /\ UNCHANGED <<stores, procs>>
    ELSE \/ /\ TooLong(password)
            /\ last' = Returned("RegisterAccount", ErrPasswordTooLong, {})
            /\ UNCHANGED <<stores, procs>>
         \/ /\ HasRoom
            /\ LET id == generateID("user", users) IN
                 /\ users' = Store(users, id, NewUser(username, password))
                 /\ last' = Returned("RegisterAccount", OK, id)
            /\ UNCHANGED <<subreddits, posts, comments, votes, voteObjs, messages, procs>>

\* AuthenticateUser: the Range stops at the first user it meets with this
\* username (Range visits in no fixed order), then bcrypt compares.
AuthenticateUser(username, password) ==
    /\ LET found == {id \in DOMAIN users : users[id].Username = username} IN
         IF found = {}
         THEN last' = Returned("AuthenticateUser", ErrUserNotFound, {})
         ELSE \E id \in found :
                IF CompareHashAndPassword(users[id].Password, password)
                THEN last' = Returned("AuthenticateUser", OK, id)
                ELSE last' = Returned("AuthenticateUser", ErrInvalidPassword, {})
    /\ UNCHANGED <<stores, procs>>

\* (mutant) the SubReddit as the literal builds it, before the creator is
\* stored in Members.
NewSubReddit_NoMember(creatorID) == [Members |-> {}]

\* The SubReddit CreateSubReddit builds: the creator is stored in Members
\* (line 115) before the record is stored in e.subreddits (line 116).  Of the
\* record only Members is kept: no handler reads Name, Description, CreatorID
\* or CreatedAt.
NewSubReddit(creatorID) == [Members |-> {creatorID}]

CreateSubReddit(creatorID) ==
    IF creatorID \notin DOMAIN users
    THEN /\ last' = Returned("CreateSubReddit", ErrCreatorNotFound, {})
         /\ UNCHANGED <<stores, procs>>
    ELSE /\ HasRoom
         /\ LET id == generateID("sub", subreddits) IN
              /\ subreddits' = Store(subreddits, id, NewSubReddit(creatorID))
              /\ last' = Returned("CreateSubReddit", OK, id)
         /\ UNCHANGED <<users, posts, comments, votes, voteObjs, messages, procs>>

\* (mutant) a join that toggles: a second join takes the member out again.
MembersStore_Toggle(subredditID, userID) ==
    [subreddits EXCEPT ![subredditID].Members =
        IF userID \in @ THEN @ \ {userID} ELSE @ \cup {userID}]

\* (mutant) a leave that deletes nothing.
MembersDelete_Nothing(subredditID, userID) == subreddits

\* subreddit.Members.Store(userID, true) / Members.Delete(userID)
MembersStore(subredditID, userID) ==
    [subreddits EXCEPT ![subredditID].Members = @ \cup {userID}]

MembersDelete(subredditID, userID) ==
    [subreddits EXCEPT ![subredditID].Members = @ \ {userID}]

\* subreddit.Members.Load(userID)
IsMember(userID, subredditID) == userID \in subreddits[subredditID].Members

\* (mutant) JoinSubReddit without its lookup of the user.
JoinSubReddit_NoUserCheck(userID, subredditID) ==
    /\ IF subredditID \notin DOMAIN subreddits
       THEN /\ last' = Returned("JoinSubReddit", ErrSubredditNotFound, {})
            /\ UNCHANGED subreddits
       ELSE /\ subreddits' = MembersStore(subredditID, userID)
            /\ last' = Returned("JoinSubReddit", OK, {})
    /\ UNCHANGED <<users, posts, comments, votes, voteObjs, messages, procs>>

\* (mutant) JoinSubReddit storing the member before it looks the user up.
JoinSubReddit_StoreFirst(userID, subredditID) ==
    /\ IF subredditID \notin DOMAIN subreddits
       THEN /\ last' = Returned("JoinSubReddit", ErrSubredditNotFound, {})
            /\ UNCHANGED subreddits
       ELSE /\ subreddits' = MembersStore(subredditID, userID)
            /\ last' = Returned("JoinSubReddit",
                                IF userID \notin DOMAIN users THEN ErrUserNotFound ELSE OK, {})
    /\ UNCHANGED <<users, posts, comments, votes, voteObjs, messages, procs>>

JoinSubReddit(userID, subredditID) ==
    /\ IF subredditID \notin DOMAIN subreddits
       THEN /\ last' = Returned("JoinSubReddit", ErrSubredditNotFound, {})
            /\ UNCHANGED subreddits
       ELSE IF userID \notin DOMAIN users
       THEN /\ last' = Returned("JoinSubReddit", ErrUserNotFound, {})
            /\ UNCHANGED subreddits
       ELSE /\ subreddits' = MembersStore(subredditID, userID)
            /\ last' = Returned("JoinSubReddit", OK, {})
    /\ UNCHANGED <<users, posts, comments, votes, voteObjs, messages, procs>>

LeaveSubReddit(userID, subredditID) ==
    /\ IF subredditID \notin DOMAIN subreddits
       THEN /\ last' = Returned("LeaveSubReddit", ErrSubredditNotFound, {})
            /\ UNCHANGED subreddits
       ELSE /\ subreddits' = MembersDelete(subredditID, userID)
            /\ last' = Returned("LeaveSubReddit", OK, {})
    /\ UNCHANGED <<users, posts, comments, votes, voteObjs, messages, procs>>

\* The Post CreatePost builds: Upvotes and Downvotes are left at Go's zero.
NewPost(authorID, subredditID) ==
    [AuthorID |-> authorID, SubRedditID |-> subredditID, Upvotes |-> 0, Downvotes |-> 0]

\* (mutant) CreatePost without its membership check.
CreatePostCheck_NoGate(authorID, subredditID) ==
    IF authorID \notin DOMAIN users THEN ErrAuthorNotFound
    ELSE IF subredditID \notin DOMAIN subreddits THEN ErrSubredditNotFound
    ELSE OK

\* (mutant) CreatePost looking at the community before the author.
CreatePostCheck_SubredditFirst(authorID, subredditID) ==
    IF subredditID \notin DOMAIN subreddits THEN ErrSubredditNotFound
    ELSE IF authorID \notin DOMAIN users THEN ErrAuthorNotFound
    ELSE IF ~IsMember(authorID, subredditID) THEN ErrNotMember
    ELSE OK

\* The error of CreatePost's three checks, in the order the source makes them.
CreatePostCheck(authorID, subredditID) ==
    IF authorID \notin DOMAIN users THEN ErrAuthorNotFound
    ELSE IF subredditID \notin DOMAIN subreddits THEN ErrSubredditNotFound
    ELSE IF ~IsMember(authorID, subredditID) THEN ErrNotMember
    ELSE OK

CreatePost(authorID, subredditID) ==
    LET err == CreatePostCheck(authorID, subredditID) IN
    IF err # OK
    THEN /\ last' = Returned("CreatePost", err, {})
         /\ UNCHANGED <<stores, procs>>
    ELSE /\ HasRoom
         /\ LET id == generateID("post", posts) IN
              /\ posts' = Store(posts, id, NewPost(authorID, subredditID))
              /\ last' = Returned("CreatePost", OK, id)
         /\ UNCHANGED <<users, subreddits, comments, votes, voteObjs, messages, procs>>

\* GetPost: the Load of e.posts.
GetPost(postID) ==
    /\ IF postID \notin DOMAIN posts
       THEN last' = Returned("GetPost", ErrPostNotFound, {})
       ELSE last' = Returned("GetPost", OK, postID)
    /\ UNCHANGED <<stores, procs>>

\* (mutant) a listing that drops the posts of authors who have left.
PostsIn_MembersOnly(subredditID) ==
    {id \in DOMAIN posts : /\ posts[id].SubRedditID = subredditID
                           /\ subredditID \in DOMAIN subreddits
                           /\ IsMember(posts[id].AuthorID, subredditID)}

\* ListPosts' Range: the posts whose SubRedditID is subredditID (as a set:
\* Range visits each key once, in no fixed order).
PostsIn(subredditID) == {id \in DOMAIN posts : posts[id].SubRedditID = subredditID}

\* ListPosts never fails: an unknown subredditID gives the empty list.
ListPosts(subredditID) ==
    /\ last' = Returned("ListPosts", OK, PostsIn(subredditID))
    /\ UNCHANGED <<stores, procs>>

\* GetFeed's first Range: the subreddits whose Members holds userID.
userSubscriptions(userID) ==
    {s \in DOMAIN subreddits : IsMember(userID, s)}

\* (mutant) a feed that does not filter by subscription.
FeedPosts_All(subs) == DOMAIN posts

\* GetFeed's second Range: the posts whose SubRedditID is in subs.  sync.Map
\* visits each key once, in no fixed order: the result is modelled as a set.
FeedPosts(subs) == {id \in DOMAIN posts : posts[id].SubRedditID \in subs}

GetFeed(userID) ==
    /\ last' = Returned("GetFeed", OK, FeedPosts(userSubscriptions(userID)))
    /\ UNCHANGED <<stores, procs>>

\* The Comment CreateComment builds: Depth, Upvotes and Downvotes are not set
\* by the source and stay at Go's zero.  parentID is Nil for a nil pointer.
NewComment(authorID, postID, parentID) ==
    [AuthorID |-> authorID, PostID |-> postID, ParentID |-> parentID,
     Depth |-> 0, Upvotes |-> 0, Downvotes |-> 0]

\* (mutant) CreateComment without its check of the parent.
CreateCommentCheck_NoParent(authorID, postID, parentCommentID) ==
    IF authorID \notin DOMAIN users THEN ErrAuthorNotFound
    ELSE IF postID \notin DOMAIN posts THEN ErrPostNotFound
    ELSE OK

\* (mutant) CreateComment looking at the post before the author.
CreateCommentCheck_PostFirst(authorID, postID, parentCommentID) ==
    IF postID \notin DOMAIN posts THEN ErrPostNotFound
    ELSE IF authorID \notin DOMAIN users THEN ErrAuthorNotFound
    ELSE IF parentCommentID # Nil /\ parentCommentID \notin DOMAIN comments THEN ErrParentNotFound
    ELSE OK

\* (mutant) CreateComment refusing a parent that hangs under another post.
CreateCommentCheck_SamePost(authorID, postID, parentCommentID) ==
    IF authorID \notin DOMAIN users THEN ErrAuthorNotFound
    ELSE IF postID \notin DOMAIN posts THEN ErrPostNotFound
    ELSE IF parentCommentID # Nil /\ parentCommentID \notin DOMAIN comments THEN ErrParentNotFound
    ELSE IF parentCommentID # Nil /\ comments[parentCommentID].PostID # postID THEN ErrParentNotFound
    ELSE OK

\* The error of CreateComment's checks, in the order the source makes them.
CreateCommentCheck(authorID, postID, parentCommentID) ==
    IF authorID \notin DOMAIN users THEN ErrAuthorNotFound
    ELSE IF postID \notin DOMAIN posts THEN ErrPostNotFound
    ELSE IF parentCommentID # Nil /\ parentCommentID \notin DOMAIN comments THEN ErrParentNotFound
    ELSE OK

CreateComment(authorID, postID, parentCommentID) ==
    LET err == CreateCommentCheck(authorID, postID, parentCommentID) IN
    IF err # OK
    THEN /\ last' = Returned("CreateComment", err, {})
         /\ UNCHANGED <<stores, procs>>
    ELSE /\ HasRoomForComment(parentCommentID)
         /\ LET id == generateID("comment", comments) IN
              /\ comments' = Store(comments, id, NewComment(authorID, postID, parentCommentID))
              /\ last' = Returned("CreateComment", OK, id)
         /\ UNCHANGED <<users, subreddits, posts, votes, voteObjs, messages, procs>>

\* The DirectMessage SendDirectMessage builds.
NewMessage(fromID, toID) == [FromID |-> fromID, ToID |-> toID]

\* (mutant) SendDirectMessage without its check of the recipient.
SendDirectMessage_NoRecipientCheck(fromID, toID) ==
    IF fromID \notin DOMAIN users
    THEN /\ last' = Returned("SendDirectMessage", ErrSenderNotFound, {})
         /\ UNCHANGED <<stores, procs>>
    ELSE /\ HasRoom
         /\ LET id == generateID("message", messages) IN
              /\ messages' = Store(messages, id, NewMessage(fromID, toID))
              /\ last' = Returned("SendDirectMessage", OK, id)
         /\ UNCHANGED <<users, subreddits, posts, comments, votes, voteObjs, procs>>

SendDirectMessage(fromID, toID) ==
    IF fromID \notin DOMAIN users
    THEN /\ last' = Returned("SendDirectMessage", ErrSenderNotFound, {})
         /\ UNCHANGED <<stores, procs>>
    ELSE IF toID \notin DOMAIN users
    THEN /\ last' = Returned("SendDirectMessage", ErrRecipientNotFound, {})
         /\ UNCHANGED <<stores, procs>>
    ELSE /\ HasRoom
         /\ LET id == generateID("message", messages) IN
              /\ messages' = Store(messages, id, NewMessage(fromID, toID))
              /\ last' = Returned("SendDirectMessage", OK, id)
         /\ UNCHANGED <<users, subreddits, posts, comments, votes, voteObjs, procs>>

\* (mutant) the check written with || for &&: only a message to oneself
\* passes.
IsParty_Both(msg, userID) == msg.FromID = userID /\ msg.ToID = userID

\* msg.FromID != userID && msg.ToID != userID, negated: the caller is the
\* sender or the recipient.
IsParty(msg, userID) == msg.FromID = userID \/ msg.ToID = userID

\* (mutant) GetUserMessages testing the two ends in two ifs with an append
\* each: a message to oneself is appended twice.
Appends_TwoIfs(msg, userID) ==
    (IF msg.ToID = userID THEN 1 ELSE 0) + (IF msg.FromID = userID THEN 1 ELSE 0)

\* The callback of GetUserMessages' Range: how many times it appends msg.
Appends(msg, userID) == IF msg.ToID = userID \/ msg.FromID = userID THEN 1 ELSE 0

\* GetUserMessages: Range calls the callback once for each key of e.messages
\* (in no fixed order).  The slice returned is kept as the number of times
\* each message id occurs in it.
GetUserMessages(userID) ==
    /\ LET appended == {m \in DOMAIN messages : Appends(messages[m], userID) > 0} IN
         last' = Returned("GetUserMessages", OK,
                          [m \in appended |-> Appends(messages[m], userID)])
    /\ UNCHANGED <<stores, procs>>

GetMessage(userID, messageID) ==
    /\ IF messageID \notin DOMAIN messages
       THEN last' = Returned("GetMessage", ErrMessageNotFound, {})
       ELSE IF ~IsParty(messages[messageID], userID)
       THEN last' = Returned("GetMessage", ErrUnauthorized, {})
       ELSE last' = Returned("GetMessage", OK, messageID)
    /\ UNCHANGED <<stores, procs>>

\* voteID := userID + ":" + targetID.  A stored target id is 32 hex digits, so
\* the text after the last colon is the target and the key is the pair.
VoteID(userID, targetID) == <<userID, targetID>>

NewVote(isUpvote) == [IsUpvote |-> isUpvote]

\* The Vote object e.votes holds under voteID.
VoteRecord(voteID) == voteObjs[<<voteID, votes[voteID]>>]

\* The object a new &models.Vote{} for voteID becomes: the first for its key
\* is <<voteID, 1>>; a later one (a Store that replaces a Store) is the next.
NewVoteObj(voteID) ==
    <<voteID, Cardinality({o \in DOMAIN voteObjs : o[1] = voteID}) + 1>>

\* The counter isUpvote names, and the other one.
IncField(isUpvote) == IF isUpvote THEN "Upvotes" ELSE "Downvotes"

DecField(isUpvote) == IF isUpvote THEN "Downvotes" ELSE "Upvotes"

\* A first vote on a post or comment record: the chosen counter ++.
CountNew(rec, isUpvote) == [rec EXCEPT ![IncField(isUpvote)] = @ + 1]

\* (mutant) a flip that forgets the decrement of the old bucket.
CountFlip_NoDecrement(rec, isUpvote) == [rec EXCEPT ![IncField(isUpvote)] = @ + 1]

\* (mutant) a flip that takes the unit from the bucket it adds to.
CountFlip_SameBucket(rec, isUpvote) ==
    [rec EXCEPT ![DecField(isUpvote)] = @ + 1, ![IncField(isUpvote)] = @ - 1]

\* A flipped vote: the chosen counter ++, the other counter --.
CountFlip(rec, isUpvote) ==
    [rec EXCEPT ![IncField(isUpvote)] = @ + 1, ![DecField(isUpvote)] = @ - 1]

\* (mutant) a target lookup in e.comments that always finds something.
IsCommentID_Always(targetID) == TRUE

\* (mutant) a target lookup in e.posts that always finds something.
IsPostID_Always(targetID) == TRUE

\* _, isPost := e.posts.Load(targetID) and _, isComment := e.comments.Load(targetID)
IsCommentID(targetID) == targetID \in DOMAIN comments

IsPostID(targetID) == targetID \in DOMAIN posts

\* (mutant) every repeated vote is taken for a flip.
Differs_Always(existingVote, isUpvote) == TRUE

\* existingVote.IsUpvote != isUpvote: the stored vote has the other polarity.
Differs(existingVote, isUpvote) == existingVote.IsUpvote # isUpvote

\* (mutant) Vote with a lookup of the voter before anything else.
Vote_KnownVoterOnly(userID, targetID, isUpvote) ==
    LET isPost == IsPostID(targetID)
        isComment == IsCommentID(targetID)
        voteID == VoteID(userID, targetID)
    IN
    IF userID \notin DOMAIN users
    THEN /\ last' = Returned("Vote", ErrUserNotFound, {})
         /\ UNCHANGED <<stores, procs>>
    ELSE
    IF ~isPost /\ ~isComment
    THEN /\ last' = Returned("Vote", ErrTargetNotFound, {})
         /\ UNCHANGED <<stores, procs>>
    ELSE /\ last' = Returned("Vote", OK, {})
         /\ IF voteID \in DOMAIN votes
            THEN IF Differs(VoteRecord(voteID), isUpvote)
                 THEN /\ posts' = IF isPost THEN [posts EXCEPT ![targetID] = CountFlip(@, isUpvote)]
                                   ELSE posts
                      /\ comments' = IF isPost THEN comments
                                      ELSE [comments EXCEPT ![targetID] = CountFlip(@, isUpvote)]
                      /\ voteObjs' = [voteObjs EXCEPT ![<<voteID, votes[voteID]>>].IsUpvote = isUpvote]
                      /\ UNCHANGED votes
                 ELSE UNCHANGED <<posts, comments, votes, voteObjs>>
            ELSE /\ posts' = IF isPost THEN [posts EXCEPT ![targetID] = CountNew(@, isUpvote)]
                              ELSE posts
                 /\ comments' = IF isPost THEN comments
                                 ELSE [comments EXCEPT ![targetID] = CountNew(@, isUpvote)]
                 /\ voteObjs' = Store(voteObjs, NewVoteObj(voteID), NewVote(isUpvote))
                 /\ votes' = Store(votes, voteID, NewVoteObj(voteID)[2])
         /\ UNCHANGED <<users, subreddits, messages, procs>>

\* (mutant) Vote adding one to the karma of the target's author.
Vote_WithKarma(userID, targetID, isUpvote) ==
    LET isPost == IsPostID(targetID)
        isComment == IsCommentID(targetID)
        voteID == VoteID(userID, targetID)
    IN
    IF ~isPost /\ ~isComment
    THEN /\ last' = Returned("Vote", ErrTargetNotFound, {})
         /\ UNCHANGED <<stores, procs>>
    ELSE /\ last' = Returned("Vote", OK, {})
         /\ IF voteID \in DOMAIN votes
            THEN IF Differs(VoteRecord(voteID), isUpvote)
                 THEN /\ posts' = IF isPost THEN [posts EXCEPT ![targetID] = CountFlip(@, isUpvote)]
                                   ELSE posts
                      /\ comments' = IF isPost THEN comments
                                      ELSE [comments EXCEPT ![targetID] = CountFlip(@, isUpvote)]
                      /\ voteObjs' = [voteObjs EXCEPT ![<<voteID, votes[voteID]>>].IsUpvote = isUpvote]
                      /\ UNCHANGED votes
                 ELSE UNCHANGED <<posts, comments, votes, voteObjs>>
            ELSE /\ posts' = IF isPost THEN [posts EXCEPT ![targetID] = CountNew(@, isUpvote)]
                              ELSE posts
                 /\ comments' = IF isPost THEN comments
                                 ELSE [comments EXCEPT ![targetID] = CountNew(@, isUpvote)]
                 /\ voteObjs' = Store(voteObjs, NewVoteObj(voteID), NewVote(isUpvote))
                 /\ votes' = Store(votes, voteID, NewVoteObj(voteID)[2])
         /\ users' = [users EXCEPT ![IF isPost THEN posts[targetID].AuthorID
                                      ELSE comments[targetID].AuthorID].Karma = @ + 1]
         /\ UNCHANGED <<subreddits, messages, procs>>

Vote(userID, targetID, isUpvote) ==
    LET isPost == IsPostID(targetID)
        isComment == IsCommentID(targetID)
        voteID == VoteID(userID, targetID)
    IN
    IF ~isPost /\ ~isComment
    THEN /\ last' = Returned("Vote", ErrTargetNotFound, {})
         /\ UNCHANGED <<stores, procs>>
    ELSE /\ last' = Returned("Vote", OK, {})
         /\ IF voteID \in DOMAIN votes
            THEN IF Differs(VoteRecord(voteID), isUpvote)
                 THEN /\ posts' = IF isPost THEN [posts EXCEPT ![targetID] = CountFlip(@, isUpvote)]
                                   ELSE posts
                      /\ comments' = IF isPost THEN comments
                                      ELSE [comments EXCEPT ![targetID] = CountFlip(@, isUpvote)]
                      /\ voteObjs' = [voteObjs EXCEPT ![<<voteID, votes[voteID]>>].IsUpvote = isUpvote]
                      /\ UNCHANGED votes
                 ELSE UNCHANGED <<posts, comments, votes, voteObjs>>
            ELSE /\ posts' = IF isPost THEN [posts EXCEPT ![targetID] = CountNew(@, isUpvote)]
                              ELSE posts
                 /\ comments' = IF isPost THEN comments
                                 ELSE [comments EXCEPT ![targetID] = CountNew(@, isUpvote)]
                 /\ voteObjs' = Store(voteObjs, NewVoteObj(voteID), NewVote(isUpvote))
                 /\ votes' = Store(votes, voteID, NewVoteObj(voteID)[2])
         /\ UNCHANGED <<users, subreddits, messages, procs>>

\* ------------------------------------------------------------ the gRPC path
\* A call of RedditClient goes through the generated stub to the handler of
\* RedditServer, which calls the engine.  It is taken in two steps: the
\* handler's call of the engine, which leaves the engine's return in last,
\* and the way back: the handler's return, the stub's, the client's.

\* What a handler of RedditServer returns: a response (Nil for nil) and an
\* error (OK for nil).
Reply(resp, err) == [resp |-> resp, err |-> err]

\* The reply of the JoinSubreddit, LeaveSubreddit and Vote handlers to the
\* error err of the engine: a StatusResponse and, for every err, a nil error.
StatusResponse(err) ==
    Reply([Success |-> err = OK, Message |-> IF err = OK THEN "" ELSE err], OK)

\* The reply of the CreatePost handler: nil and the engine's error, or the
\* PostResponse (kept as the post's id).
PostResponse(err, val) == IF err # OK THEN Reply(Nil, err) ELSE Reply(val, OK)

\* The nil error of the stub, written as the status it stands for.
NilStatus == [code |-> "OK", message |-> ""]

\* grpc-go, what the stub returns for a handler's reply: the response and nil,
\* or for a handler's error, which is no status error, nil and a status error
\* of code Unknown that carries err.Error().
Stub(reply) ==
    IF reply.err = OK THEN Reply(reply.resp, NilStatus)
    ELSE Reply(Nil, [code |-> "Unknown", message |-> reply.err])

\* handleError of the client: nil stays nil; a status error becomes its
\* message for three codes, a fixed text for Unavailable, and stays itself
\* (here: its text) for every other code.
handleError(err) ==
    IF err = NilStatus THEN OK
    ELSE IF err.code \in {"NotFound", "AlreadyExists", "PermissionDenied"} THEN err.message
    ELSE IF err.code = "Unavailable" THEN "service temporarily unavailable"
    ELSE "rpc error: code = " \o err.code \o " desc = " \o err.message

\* The engine handlers reached through the server here.
Served == {"JoinSubReddit", "LeaveSubReddit", "Vote", "CreatePost"}

\* The handlers of RedditServer up to the engine's return.  A handler is
\* entered when the reply to the call before it has reached the client.
RedditServer_JoinSubreddit(userID, subredditID) ==
    last.op \notin Served /\ JoinSubReddit(userID, subredditID)

RedditServer_LeaveSubreddit(userID, subredditID) ==
    last.op \notin Served /\ LeaveSubReddit(userID, subredditID)

RedditServer_Vote(userID, targetID, isUpvote) ==
    last.op \notin Served /\ Vote(userID, targetID, isUpvote)

RedditServer_CreatePost(authorID, subredditID) ==
    last.op \notin Served /\ CreatePost(authorID, subredditID)

\* RedditClient.JoinSubReddit, LeaveSubReddit and Vote: `_, err := c.client.X(...)`
\* drops the StatusResponse and returns handleError(err).  val keeps the
\* response that was dropped.
RedditClient_Status(op) ==
    /\ last.op = op
    /\ LET got == Stub(StatusResponse(last.err)) IN
         last' = Returned("RedditClient." \o op, handleError(got.err), got.resp)
    /\ UNCHANGED <<stores, procs>>

RedditClient_JoinSubReddit == RedditClient_Status("JoinSubReddit")

RedditClient_LeaveSubReddit == RedditClient_Status("LeaveSubReddit")

RedditClient_Vote == RedditClient_Status("Vote")

\* RedditClient.CreatePost: returns nil and handleError(err) when err is not
\* nil, and the Post of the response otherwise.
RedditClient_CreatePost ==
    /\ last.op = "CreatePost"
    /\ LET got == Stub(PostResponse(last.err, last.val)) IN
         last' = Returned("RedditClient.CreatePost", handleError(got.err),
                          IF got.err # NilStatus THEN Nil ELSE got.resp)
    /\ UNCHANGED <<stores, procs>>

\* ------------------------------------------------------------ the REST path
\* A handler of the REST Server calls the engine and answers with a status
\* code.  As on the gRPC path it is taken in two steps: the handler's call of
\* the engine, which leaves the engine's return in last, and its answer.
\* Request bodies are well formed (a body that is not is answered 400 before
\* the engine is called).  The caller's id is the bearer token, whatever it is.

StatusOK == 200
StatusCreated == 201
StatusBadRequest == 400
StatusNotFound == 404

\* The status code each handler answers to the engine's error err.
handleVote_Status(err) == IF err # OK THEN StatusBadRequest ELSE StatusOK

handleCreatePost_Status(err) == IF err # OK THEN StatusBadRequest ELSE StatusCreated

handleSendMessage_Status(err) == IF err # OK THEN StatusBadRequest ELSE StatusCreated

handleGetPost_Status(err) == IF err # OK THEN StatusNotFound ELSE StatusOK

handleGetMessage_Status(err) == IF err # OK THEN StatusNotFound ELSE StatusOK

\* The engine handlers reached through the REST Server here.
Routed == {"Vote", "CreatePost", "SendDirectMessage", "GetPost", "GetMessage"}

\* The handlers up to the engine's return.  A handler is entered when the
\* request before it has been answered.
handleVote(userID, targetID, isUpvote) ==
    last.op \notin Routed /\ Vote(userID, targetID, isUpvote)

handleCreatePost(userID, subredditID) ==
    last.op \notin Routed /\ CreatePost(userID, subredditID)

handleSendMessage(userID, toID) ==
    last.op \notin Routed /\ SendDirectMessage(userID, toID)

handleGetPost(postID) ==
    last.op \notin Routed /\ GetPost(postID)

handleGetMessage(userID, messageID) ==
    last.op \notin Routed /\ GetMessage(userID, messageID)

\* respondWithError / respondWithJSON: the answer to the request whose engine
\* call has just returned.  err keeps the engine's error the handler
\* answered to, val is the status code written.
Respond(op, handler, code) ==
    /\ last.op = op
    /\ last' = Returned(handler, last.err, code)
    /\ UNCHANGED <<stores, procs>>

handleVote_Respond == Respond("Vote", "handleVote", handleVote_Status(last.err))

handleCreatePost_Respond ==
    Respond("CreatePost", "handleCreatePost", handleCreatePost_Status(last.err))

handleSendMessage_Respond ==
    Respond("SendDirectMessage", "handleSendMessage", handleSendMessage_Status(last.err))

handleGetPost_Respond == Respond("GetPost", "handleGetPost", handleGetPost_Status(last.err))

handleGetMessage_Respond ==
    Respond("GetMessage", "handleGetMessage", handleGetMessage_Status(last.err))

\* ---------------------------------------------------------- specifications

\* One caller, one call at a time, from the empty engine: accounts,
\* communities, membership, posts and the feed.
Next ==
    \/ \E username \in Usernames : RegisterAccount(username, SomePassword)
    \/ \E creatorID \in StoredOrNot("user", users) : CreateSubReddit(creatorID)
    \/ \E userID \in StoredOrNot("user", users), subredditID \in StoredOrNot("sub", subreddits) :
          JoinSubReddit(userID, subredditID)
    \/ \E userID \in StoredOrNot("user", users), subredditID \in StoredOrNot("sub", subreddits) :
          LeaveSubReddit(userID, subredditID)
    \/ \E authorID \in StoredOrNot("user", users), subredditID \in StoredOrNot("sub", subreddits) :
          CreatePost(authorID, subredditID)
    \/ \E userID \in StoredOrNot("user", users) : GetFeed(userID)

Spec == Init /\ [][Next]_vars

\* The engine after RegisterAccount("alice"), RegisterAccount("bob"),
\* CreateSubReddit by the first user, CreatePost by that user in it and
\* CreateComment by the second user on the post: a fresh post and a fresh
\* comment, no vote yet.
InitVote ==
    /\ users = (<<"user", 1>> :> NewUser("alice", SomePassword)) @@ (<<"user", 2>> :> NewUser("bob", SomePassword))
    /\ subreddits = (<<"sub", 1>> :> NewSubReddit(<<"user", 1>>))
    /\ posts = (<<"post", 1>> :> NewPost(<<"user", 1>>, <<"sub", 1>>))
    /\ comments = (<<"comment", 1>> :> NewComment(<<"user", 2>>, <<"post", 1>>, Nil))
    /\ votes = EmptyMap
    /\ voteObjs = EmptyMap
    /\ messages = EmptyMap
    /\ last = NoCall
    /\ pc = [p \in Procs |-> "idle"]
    /\ loc = [p \in Procs |-> NoLocals]
    /\ calls = [p \in Procs |-> 0]
    /\ seen = [p \in Procs |-> {}]
    /\ metrics = NoMetrics
    /\ sim = NoSim

\* One caller at a time voting on the post and the comment of InitVote, as a
\* stored user or as an id that is no user's.
NextVote ==
    \E userID \in StoredOrNot("user", users),
       targetID \in StoredOrNot("post", posts) \cup StoredOrNot("comment", comments),
       isUpvote \in BOOLEAN :
        Vote(userID, targetID, isUpvote)

SpecVote == InitVote /\ [][NextVote]_vars

\* One caller at a time joining and leaving the community of InitVote,
\* voting on its post and comment, and reading its posts.
NextLeave ==
    \/ \E userID \in StoredOrNot("user", users), subredditID \in StoredOrNot("sub", subreddits) :
          JoinSubReddit(userID, subredditID)
    \/ \E userID \in StoredOrNot("user", users), subredditID \in StoredOrNot("sub", subreddits) :
          LeaveSubReddit(userID, subredditID)
    \/ \E userID \in DOMAIN users, targetID \in DOMAIN posts \cup DOMAIN comments,
          isUpvote \in BOOLEAN :
          Vote(userID, targetID, isUpvote)
    \/ \E subredditID \in StoredOrNot("sub", subreddits) : ListPosts(subredditID)
    \/ \E postID \in StoredOrNot("post", posts) : GetPost(postID)

SpecLeave == InitVote /\ [][NextLeave]_vars

\* One client at a time calling the server, from the engine of InitPost (the
\* definition follows; two users and a community).
NextRpc ==
    \/ \E userID \in StoredOrNot("user", users), subredditID \in StoredOrNot("sub", subreddits) :
          RedditServer_JoinSubreddit(userID, subredditID)
    \/ \E userID \in StoredOrNot("user", users), subredditID \in StoredOrNot("sub", subreddits) :
          RedditServer_LeaveSubreddit(userID, subredditID)
    \/ \E userID \in DOMAIN users, targetID \in StoredOrNot("post", posts), isUpvote \in BOOLEAN :
          RedditServer_Vote(userID, targetID, isUpvote)
    \/ \E authorID \in StoredOrNot("user", users), subredditID \in StoredOrNot("sub", subreddits) :
          RedditServer_CreatePost(authorID, subredditID)
    \/ RedditClient_JoinSubReddit
    \/ RedditClient_LeaveSubReddit
    \/ RedditClient_Vote
    \/ RedditClient_CreatePost

\* The model's cap on vote records, for the runs that also create entities:
\* a vote record takes the room of an entity.
HasRoomForVote(userID, targetID) ==
    \/ VoteID(userID, targetID) \in DOMAIN votes
    \/ targetID \notin DOMAIN posts \cup DOMAIN comments
    \/ HasRoom /\ Cardinality(DOMAIN votes) = 0

\* The engine after RegisterAccount("alice"), RegisterAccount("bob"),
\* CreateSubReddit by alice and her CreatePost in it.
InitEngine ==
    /\ users = (<<"user", 1>> :> NewUser("alice", SomePassword)) @@
               (<<"user", 2>> :> NewUser("bob", SomePassword))
    /\ subreddits = (<<"sub", 1>> :> NewSubReddit(<<"user", 1>>))
    /\ posts = (<<"post", 1>> :> NewPost(<<"user", 1>>, <<"sub", 1>>))
    /\ comments = EmptyMap
    /\ votes = EmptyMap
    /\ voteObjs = EmptyMap
    /\ messages = EmptyMap
    /\ last = NoCall
    /\ pc = [p \in Procs |-> "idle"]
    /\ loc = [p \in Procs |-> NoLocals]
    /\ calls = [p \in Procs |-> 0]
    /\ seen = [p \in Procs |-> {}]
    /\ metrics = NoMetrics
    /\ sim = NoSim

\* One caller, one call at a time: every handler of the engine that can
\* fail, and the reads of accounts and messages.
NextEngine ==
    \/ \E username \in {"alice", "carol"},
          password \in {SomePassword, Password("72 bytes", "x")} :
          RegisterAccount(username, password)
    \/ \E username \in {"alice", "carol"}, password \in {SomePassword, Password("other", "")} :
          AuthenticateUser(username, password)
    \/ \E creatorID \in StoredOrNot("user", users) : CreateSubReddit(creatorID)
    \/ \E userID \in StoredOrNot("user", users), subredditID \in StoredOrNot("sub", subreddits) :
          JoinSubReddit(userID, subredditID)
    \/ \E userID \in StoredOrNot("user", users), subredditID \in StoredOrNot("sub", subreddits) :
          LeaveSubReddit(userID, subredditID)
    \/ \E authorID \in StoredOrNot("user", users), subredditID \in StoredOrNot("sub", subreddits) :
          CreatePost(authorID, subredditID)
    \/ \E authorID \in StoredOrNot("user", users), postID \in StoredOrNot("post", posts),
          parentCommentID \in {Nil} \cup StoredOrNot("comment", comments) :
          CreateComment(authorID, postID, parentCommentID)
    \/ \E userID \in DOMAIN users,
          targetID \in StoredOrNot("post", posts) \cup DOMAIN comments,
          isUpvote \in BOOLEAN :
          HasRoomForVote(userID, targetID) /\ Vote(userID, targetID, isUpvote)
    \/ \E fromID \in StoredOrNot("user", users), toID \in StoredOrNot("user", users) :
          SendDirectMessage(fromID, toID)
    \/ \E userID \in StoredOrNot("user", users), messageID \in StoredOrNot("message", messages) :
          GetMessage(userID, messageID)

SpecEngine == InitEngine /\ [][NextEngine]_vars

\* One REST request at a time, from the engine of InitEngine: votes, posts,
\* messages and the reads of a post and of a message, with the ids of stored
\* and of unknown callers, targets, communities and messages.
NextRest ==
    \/ \E userID \in StoredOrNot("user", users), targetID \in StoredOrNot("post", posts),
          isUpvote \in BOOLEAN :
          HasRoomForVote(userID, targetID) /\ handleVote(userID, targetID, isUpvote)
    \/ \E userID \in StoredOrNot("user", users), subredditID \in StoredOrNot("sub", subreddits) :
          handleCreatePost(userID, subredditID)
    \/ \E userID \in StoredOrNot("user", users), toID \in StoredOrNot("user", users) :
          handleSendMessage(userID, toID)
    \/ \E postID \in StoredOrNot("post", posts) : handleGetPost(postID)
    \/ \E userID \in StoredOrNot("user", users), messageID \in StoredOrNot("message", messages) :
          handleGetMessage(userID, messageID)
    \/ handleVote_Respond
    \/ handleCreatePost_Respond
    \/ handleSendMessage_Respond
    \/ handleGetPost_Respond
    \/ handleGetMessage_Respond

SpecRest == InitEngine /\ [][NextRest]_vars

\* One caller at a time registering accounts and logging in, with usernames
\* that differ only in letter case and passwords that differ only after the
\* 72nd byte among them.
NextAuth ==
    \/ \E username \in {"alice", "Alice", "bob"}, password \in Passwords :
          RegisterAccount(username, password)
    \/ \E username \in {"alice", "Alice", "bob"}, password \in Passwords :
          AuthenticateUser(username, password)

SpecAuth == Init /\ [][NextAuth]_vars

\* The engine after three RegisterAccount calls: no message yet.
InitMessage ==
    /\ users = (<<"user", 1>> :> NewUser("alice", SomePassword)) @@
               (<<"user", 2>> :> NewUser("bob", SomePassword)) @@
               (<<"user", 3>> :> NewUser("carol", SomePassword))
    /\ subreddits = EmptyMap
    /\ posts = EmptyMap
    /\ comments = EmptyMap
    /\ votes = EmptyMap
    /\ voteObjs = EmptyMap
    /\ messages = EmptyMap
    /\ last = NoCall
    /\ pc = [p \in Procs |-> "idle"]
    /\ loc = [p \in Procs |-> NoLocals]
    /\ calls = [p \in Procs |-> 0]
    /\ seen = [p \in Procs |-> {}]
    /\ metrics = NoMetrics
    /\ sim = NoSim

\* One caller at a time sending direct messages, reading one and listing
\* those of a user.
NextMessage ==
    \/ \E fromID \in StoredOrNot("user", users), toID \in StoredOrNot("user", users) :
          SendDirectMessage(fromID, toID)
    \/ \E userID \in StoredOrNot("user", users), messageID \in StoredOrNot("message", messages) :
          GetMessage(userID, messageID)
    \/ \E userID \in StoredOrNot("user", users) : GetUserMessages(userID)

SpecMessage == InitMessage /\ [][NextMessage]_vars

\* The engine after RegisterAccount("alice"), CreateSubReddit by her and her
\* CreatePost in it: a post with no comment yet.
InitComment ==
    /\ users = (<<"user", 1>> :> NewUser("alice", SomePassword))
    /\ subreddits = (<<"sub", 1>> :> NewSubReddit(<<"user", 1>>))
    /\ posts = (<<"post", 1>> :> NewPost(<<"user", 1>>, <<"sub", 1>>))
    /\ comments = EmptyMap
    /\ votes = EmptyMap
    /\ voteObjs = EmptyMap
    /\ messages = EmptyMap
    /\ last = NoCall
    /\ pc = [p \in Procs |-> "idle"]
    /\ loc = [p \in Procs |-> NoLocals]
    /\ calls = [p \in Procs |-> 0]
    /\ seen = [p \in Procs |-> {}]
    /\ metrics = NoMetrics
    /\ sim = NoSim

\* One caller at a time posting, commenting on posts, replying to comments
\* and voting on them.
NextComment ==
    \/ \E authorID \in StoredOrNot("user", users), subredditID \in StoredOrNot("sub", subreddits) :
          CreatePost(authorID, subredditID)
    \/ \E authorID \in StoredOrNot("user", users), postID \in StoredOrNot("post", posts),
          parentCommentID \in {Nil} \cup StoredOrNot("comment", comments) :
          CreateComment(authorID, postID, parentCommentID)
    \/ \E userID \in DOMAIN users, targetID \in StoredOrNot("comment", comments),
          isUpvote \in BOOLEAN :
          Vote(userID, targetID, isUpvote)

SpecComment == InitComment /\ [][NextComment]_vars

\* ------------------------------------------ handlers step by step (goroutine p)

\* The positions of a goroutine inside GetFeed.
FeedLabels == {"feed_subreddits", "feed_posts"}

\* (history) A step leaves a state: every goroutine inside GetFeed notes the
\* feed of its user in the state left.  GetFeed writes nothing, so the state
\* its call starts in and the state it returns in have the feeds of their
\* neighbours, and seen[q] ends as the feeds of all states of the call.
Observe ==
    [q \in Procs |->
        IF pc[q] \in FeedLabels
        THEN seen[q] \cup {FeedPosts(userSubscriptions(loc[q].userID))}
        ELSE seen[q]]

\* p enters handler op with the given locals.
Enter(p, label, locals) ==
    /\ pc[p] = "idle"
    /\ calls[p] < MaxCalls
    /\ pc' = [pc EXCEPT ![p] = label]
    /\ loc' = [loc EXCEPT ![p] = locals]
    /\ calls' = [calls EXCEPT ![p] = @ + 1]
    /\ seen' = [Observe EXCEPT ![p] = {}]
    /\ metrics' = IF locals.endpoint = "" THEN metrics
                  ELSE [metrics EXCEPT !.made[locals.endpoint] = @ + 1]
    /\ UNCHANGED sim

\* p moves on inside its handler.
Goto(p, label, locals) ==
    /\ pc' = [pc EXCEPT ![p] = label]
    /\ loc' = [loc EXCEPT ![p] = locals]
    /\ seen' = Observe
    /\ UNCHANGED <<calls, metrics, sim>>

\* p returns (err, val) to its caller; its locals keep the arguments.  The
\* caller is the program (p is idle again) or the handler of the gRPC server
\* that made the call, which goes on with `if err != nil`.
Return(p, err, val) ==
    /\ pc' = [pc EXCEPT ![p] = IF loc[p].endpoint = "" THEN "idle"
                               ELSE IF err # OK THEN "server_error"
                               ELSE "server_latency"]
    /\ loc' = [loc EXCEPT ![p].err = err, ![p].val = val]
    /\ seen' = Observe
    /\ metrics' = IF loc[p].endpoint = "" \/ err = OK THEN metrics
                  ELSE [metrics EXCEPT !.failed[loc[p].endpoint] = @ + 1]
    /\ UNCHANGED <<calls, sim>>

\* RegisterAccount, engine.go:40-72: the Range, then (after bcrypt) the Store.
RegisterAccount_Call(p, username, password) ==
    /\ Enter(p, "reg_range", [NoLocals EXCEPT !.op = "RegisterAccount", !.username = username,
                                              !.password = password])
    /\ UNCHANGED <<stores, last>>

RegisterAccount_Range(p) ==
    /\ pc[p] = "reg_range"
    /\ IF UsernameExists(loc[p].username)
       THEN Return(p, ErrUsernameExists, {})
       ELSE \/ TooLong(loc[p].password) /\ Return(p, ErrPasswordTooLong, {})
            \/ Goto(p, "reg_store", loc[p])
    /\ UNCHANGED <<stores, last>>

RegisterAccount_Store(p) ==
    /\ pc[p] = "reg_store"
    /\ LET id == generateID("user", users) IN
         /\ users' = Store(users, id, NewUser(loc[p].username, loc[p].password))
         /\ Return(p, OK, id)
    /\ UNCHANGED <<subreddits, posts, comments, votes, voteObjs, messages, last>>

\* CreateSubReddit, engine.go:98-118: the Load of the creator, then the Store
\* of the new SubReddit.  Members.Store(creatorID, true) on line 115 writes to
\* the SubReddit before line 116 puts it into e.subreddits; until then no other
\* goroutine can reach it, so the two lines are one step for every observer.
CreateSubReddit_Call(p, creatorID) ==
    /\ Enter(p, "sub_load", [NoLocals EXCEPT !.op = "CreateSubReddit", !.userID = creatorID])
    /\ UNCHANGED <<stores, last>>

CreateSubReddit_Load(p) ==
    /\ pc[p] = "sub_load"
    /\ IF loc[p].userID \notin DOMAIN users
       THEN Return(p, ErrCreatorNotFound, {})
       ELSE Goto(p, "sub_store", loc[p])
    /\ UNCHANGED <<stores, last>>

CreateSubReddit_Store(p) ==
    /\ pc[p] = "sub_store"
    /\ LET id == generateID("sub", subreddits) IN
         /\ subreddits' = Store(subreddits, id, NewSubReddit(loc[p].userID))
         /\ Return(p, OK, id)
    /\ UNCHANGED <<users, posts, comments, votes, voteObjs, messages, last>>

\* JoinSubReddit, engine.go:140-154: the two Loads, then Members.Store on the
\* SubReddit the first Load returned.
JoinSubReddit_Call(p, userID, subredditID) ==
    /\ Enter(p, "join_load", [NoLocals EXCEPT !.op = "JoinSubReddit", !.userID = userID,
                                              !.subredditID = subredditID])
    /\ UNCHANGED <<stores, last>>

JoinSubReddit_Load(p) ==
    /\ pc[p] = "join_load"
    /\ IF loc[p].subredditID \notin DOMAIN subreddits THEN Return(p, ErrSubredditNotFound, {})
       ELSE IF loc[p].userID \notin DOMAIN users THEN Return(p, ErrUserNotFound, {})
       ELSE Goto(p, "join_store", loc[p])
    /\ UNCHANGED <<stores, last>>

JoinSubReddit_Store(p) ==
    /\ pc[p] = "join_store"
    /\ subreddits' = MembersStore(loc[p].subredditID, loc[p].userID)
    /\ Return(p, OK, {})
    /\ UNCHANGED <<users, posts, comments, votes, voteObjs, messages, last>>

\* LeaveSubReddit, engine.go:157-166: the Load, then Members.Delete.
LeaveSubReddit_Call(p, userID, subredditID) ==
    /\ Enter(p, "leave_load", [NoLocals EXCEPT !.op = "LeaveSubReddit", !.userID = userID,
                                               !.subredditID = subredditID])
    /\ UNCHANGED <<stores, last>>

LeaveSubReddit_Load(p) ==
    /\ pc[p] = "leave_load"
    /\ IF loc[p].subredditID \notin DOMAIN subreddits THEN Return(p, ErrSubredditNotFound, {})
       ELSE Goto(p, "leave_delete", loc[p])
    /\ UNCHANGED <<stores, last>>

LeaveSubReddit_Delete(p) ==
    /\ pc[p] = "leave_delete"
    /\ subreddits' = MembersDelete(loc[p].subredditID, loc[p].userID)
    /\ Return(p, OK, {})
    /\ UNCHANGED <<users, posts, comments, votes, voteObjs, messages, last>>

\* CreatePost, engine.go:169-199: the two Loads and their checks, the
\* Members.Load, then the Store of the new Post.
CreatePost_Call(p, authorID, subredditID) ==
    /\ Enter(p, "post_load", [NoLocals EXCEPT !.op = "CreatePost", !.userID = authorID,
                                              !.subredditID = subredditID])
    /\ UNCHANGED <<stores, last>>

\* (mutant) CreatePost going from its two Loads straight to the Store.
CreatePost_Load_ThenStore(p) ==
    /\ pc[p] = "post_load"
    /\ IF loc[p].userID \notin DOMAIN users THEN Return(p, ErrAuthorNotFound, {})
       ELSE IF loc[p].subredditID \notin DOMAIN subreddits THEN Return(p, ErrSubredditNotFound, {})
       ELSE Goto(p, "post_store", [loc[p] EXCEPT !.checked = {"author", "community"}])
    /\ UNCHANGED <<stores, last>>

CreatePost_Load(p) ==
    /\ pc[p] = "post_load"
    /\ IF loc[p].userID \notin DOMAIN users THEN Return(p, ErrAuthorNotFound, {})
       ELSE IF loc[p].subredditID \notin DOMAIN subreddits THEN Return(p, ErrSubredditNotFound, {})
       ELSE Goto(p, "post_member", [loc[p] EXCEPT !.checked = {"author", "community"}])
    /\ UNCHANGED <<stores, last>>

CreatePost_CheckMember(p) ==
    /\ pc[p] = "post_member"
    /\ IF ~IsMember(loc[p].userID, loc[p].subredditID)
       THEN Return(p, ErrNotMember, {})
       ELSE Goto(p, "post_store", [loc[p] EXCEPT !.checked = @ \cup {"member"}])
    /\ UNCHANGED <<stores, last>>

\* GetPost, engine.go:202-208: one Load of e.posts.
GetPost_Call(p, postID) ==
    /\ Enter(p, "getpost_load", [NoLocals EXCEPT !.op = "GetPost", !.targetID = postID])
    /\ UNCHANGED <<stores, last>>

GetPost_Load(p) ==
    /\ pc[p] = "getpost_load"
    /\ IF loc[p].targetID \notin DOMAIN posts
       THEN Return(p, ErrPostNotFound, {})
       ELSE Return(p, OK, {loc[p].targetID})
    /\ UNCHANGED <<stores, last>>

\* ListPosts, engine.go:211-221: one Range over e.posts.
ListPosts_Call(p, subredditID) ==
    /\ Enter(p, "list_range", [NoLocals EXCEPT !.op = "ListPosts", !.subredditID = subredditID])
    /\ UNCHANGED <<stores, last>>

ListPosts_Range(p) ==
    /\ pc[p] = "list_range"
    /\ Return(p, OK, PostsIn(loc[p].subredditID))
    /\ UNCHANGED <<stores, last>>

CreatePost_Store(p) ==
    /\ pc[p] = "post_store"
    /\ LET id == generateID("post", posts) IN
         /\ posts' = Store(posts, id, NewPost(loc[p].userID, loc[p].subredditID))
         /\ Return(p, OK, id)
    /\ UNCHANGED <<users, subreddits, comments, votes, voteObjs, messages, last>>

\* GetFeed, engine.go:340-363: the Range over e.subreddits that fills the
\* local userSubscriptions, then the Range over e.posts.  Each Range is taken
\* here as one step; the source gives it no more than that.
GetFeed_Call(p, userID) ==
    /\ Enter(p, "feed_subreddits", [NoLocals EXCEPT !.op = "GetFeed", !.userID = userID])
    /\ UNCHANGED <<stores, last>>

GetFeed_RangeSubreddits(p) ==
    /\ pc[p] = "feed_subreddits"
    /\ Goto(p, "feed_posts", [loc[p] EXCEPT !.userSubscriptions = userSubscriptions(loc[p].userID)])
    /\ UNCHANGED <<stores, last>>

GetFeed_RangePosts(p) ==
    /\ pc[p] = "feed_posts"
    /\ Return(p, OK, FeedPosts(loc[p].userSubscriptions))
    /\ UNCHANGED <<stores, last>>

\* The counter field of the post or comment p votes on, and a write to it.
Counter(p, field) ==
    IF loc[p].isPost THEN posts[loc[p].targetID][field] ELSE comments[loc[p].targetID][field]

WriteCounter(p, field, v) ==
    /\ posts' = IF loc[p].isPost THEN [posts EXCEPT ![loc[p].targetID][field] = v] ELSE posts
    /\ comments' = IF loc[p].isPost THEN comments
                   ELSE [comments EXCEPT ![loc[p].targetID][field] = v]

\* Vote, engine.go:271-337.  post.Upvotes++ and its like are plain int64
\* read-modify-writes on a shared struct: a read step and a write step.
Vote_Call(p, userID, targetID, isUpvote) ==
    /\ Enter(p, "vote_load", [NoLocals EXCEPT !.op = "Vote", !.userID = userID,
                                              !.targetID = targetID, !.isUpvote = isUpvote])
    /\ UNCHANGED <<stores, last>>

\* lines 273-278: the target is a post, or else a comment, or else unknown.
Vote_LoadTarget(p) ==
    /\ pc[p] = "vote_load"
    /\ IF loc[p].targetID \notin DOMAIN posts /\ loc[p].targetID \notin DOMAIN comments
       THEN Return(p, ErrTargetNotFound, {})
       ELSE Goto(p, "vote_loadVote", [loc[p] EXCEPT !.isPost = loc[p].targetID \in DOMAIN posts])
    /\ UNCHANGED <<stores, last>>

\* lines 280-283: e.votes.Load(voteID).
Vote_LoadVote(p) ==
    /\ pc[p] = "vote_loadVote"
    /\ LET voteID == VoteID(loc[p].userID, loc[p].targetID) IN
         IF voteID \in DOMAIN votes
         THEN Goto(p, "vote_compare", [loc[p] EXCEPT !.exists = TRUE, !.existingVote = votes[voteID]])
         ELSE Goto(p, "vote_incRead", [loc[p] EXCEPT !.exists = FALSE])
    /\ UNCHANGED <<stores, last>>

\* line 286: the read of existingVote.IsUpvote.
Vote_Compare(p) ==
    /\ pc[p] = "vote_compare"
    /\ LET voteID == VoteID(loc[p].userID, loc[p].targetID) IN
         IF Differs(voteObjs[<<voteID, loc[p].existingVote>>], loc[p].isUpvote)
         THEN Goto(p, "vote_incRead", loc[p])
         ELSE Return(p, OK, {})
    /\ UNCHANGED <<stores, last>>

\* lines 290, 293, 299, 302 (flip) and 320, 322, 327, 329 (new vote): x++.
Vote_IncRead(p) ==
    /\ pc[p] = "vote_incRead"
    /\ Goto(p, "vote_incWrite", [loc[p] EXCEPT !.tmp = Counter(p, IncField(loc[p].isUpvote))])
    /\ UNCHANGED <<stores, last>>

Vote_IncWrite(p) ==
    /\ pc[p] = "vote_incWrite"
    /\ WriteCounter(p, IncField(loc[p].isUpvote), loc[p].tmp + 1)
    /\ Goto(p, IF loc[p].exists THEN "vote_decRead" ELSE "vote_store", loc[p])
    /\ UNCHANGED <<users, subreddits, votes, voteObjs, messages, last>>

\* lines 291, 294, 300, 303: x-- on the other counter.
Vote_DecRead(p) ==
    /\ pc[p] = "vote_decRead"
    /\ Goto(p, "vote_decWrite", [loc[p] EXCEPT !.tmp = Counter(p, DecField(loc[p].isUpvote))])
    /\ UNCHANGED <<stores, last>>

Vote_DecWrite(p) ==
    /\ pc[p] = "vote_decWrite"
    /\ WriteCounter(p, DecField(loc[p].isUpvote), loc[p].tmp - 1)
    /\ Goto(p, "vote_setVote", loc[p])
    /\ UNCHANGED <<users, subreddits, votes, voteObjs, messages, last>>

\* line 306: existingVote.IsUpvote = isUpvote, on the object Load returned.
Vote_SetVote(p) ==
    /\ pc[p] = "vote_setVote"
    /\ LET voteID == VoteID(loc[p].userID, loc[p].targetID) IN
         voteObjs' = [voteObjs EXCEPT ![<<voteID, loc[p].existingVote>>].IsUpvote = loc[p].isUpvote]
    /\ Return(p, OK, {})
    /\ UNCHANGED <<users, subreddits, posts, comments, votes, messages, last>>

\* line 333: e.votes.Store(voteID, vote), of the Vote line 310 allocated.
Vote_StoreVote(p) ==
    /\ pc[p] = "vote_store"
    /\ LET voteID == VoteID(loc[p].userID, loc[p].targetID)
           obj == NewVoteObj(voteID)
       IN /\ voteObjs' = Store(voteObjs, obj, NewVote(loc[p].isUpvote))
          /\ votes' = Store(votes, voteID, obj[2])
    /\ Return(p, OK, {})
    /\ UNCHANGED <<users, subreddits, posts, comments, messages, last>>

\* The gRPC server's JoinSubreddit and CreatePost, server.go:71-87 and
\* 109-131, as goroutines run them: the handler calls the engine (the steps
\* of JoinSubReddit and CreatePost above, returning to the handler), records
\* an error when the engine returned one, and on its way out runs the
\* deferred RecordLatency.
RedditServer_JoinSubreddit_Call(p, userID, subredditID) ==
    /\ Enter(p, "join_load", [NoLocals EXCEPT !.op = "JoinSubReddit", !.userID = userID,
                                              !.subredditID = subredditID,
                                              !.endpoint = "JoinSubreddit"])
    /\ UNCHANGED <<stores, last>>

RedditServer_CreatePost_Call(p, authorID, subredditID) ==
    /\ Enter(p, "post_load", [NoLocals EXCEPT !.op = "CreatePost", !.userID = authorID,
                                              !.subredditID = subredditID,
                                              !.endpoint = "CreatePost"])
    /\ UNCHANGED <<stores, last>>

\* (mutant) RecordError without the global count.
RecordError_EndpointOnly(p) ==
    /\ pc[p] = "server_error"
    /\ metrics' = [metrics EXCEPT !.EndpointStats[loc[p].endpoint].ErrorCount = @ + 1]
    /\ pc' = [pc EXCEPT ![p] = "server_latency"]
    /\ seen' = Observe
    /\ UNCHANGED <<stores, last, loc, calls, sim>>

\* Collector.RecordError, metrics.go:91-104, called by the handler of p: one
\* step, c.mtx is held from its first line to its return.
RecordError(p) ==
    /\ pc[p] = "server_error"
    /\ metrics' = [metrics EXCEPT !.EndpointStats[loc[p].endpoint].ErrorCount = @ + 1,
                                  !.ErrorCount = @ + 1]
    /\ pc' = [pc EXCEPT ![p] = "server_latency"]
    /\ seen' = Observe
    /\ UNCHANGED <<stores, last, loc, calls, sim>>

\* Collector.RecordLatency, metrics.go:72-89, run by the handler's defer: one
\* step under c.mtx; then the handler has returned.
RecordLatency(p) ==
    /\ pc[p] = "server_latency"
    /\ metrics' = [metrics EXCEPT !.EndpointStats[loc[p].endpoint].CallCount = @ + 1,
                                  !.latencies = @ + 1]
    /\ pc' = [pc EXCEPT ![p] = "idle"]
    /\ seen' = Observe
    /\ UNCHANGED <<stores, last, loc, calls, sim>>

\* The error grpc.DialContext returns when the dial of iteration i fails: a
\* value of its own for each dial.
DialError(i) ==
    CASE i = 0 -> "dial 1 failed"
      [] i = 1 -> "dial 2 failed"
      [] OTHER -> "dial 3 failed"

\* NewRedditClient, client.go:26-58.  ctx and cancel are made, then the loop
\* `for i := 0; i < 3; i++`: a blocking dial that returns within its
\* timeout, `break` when err is nil, else a sleep of a second.
NewRedditClient_Call(p) ==
    /\ Enter(p, "client_dial", [NoLocals EXCEPT !.op = "NewRedditClient"])
    /\ UNCHANGED <<stores, last>>

\* (mutant) the loop without its break.
NewRedditClient_Dial_NoBreak(p) ==
    /\ pc[p] = "client_dial"
    /\ IF loc[p].i < 3
       THEN \E outcome \in {OK, DialError(loc[p].i)} :
                Goto(p, "client_sleep",
                     [loc[p] EXCEPT !.err = outcome, !.attempts = Append(@, outcome)])
       ELSE Goto(p, "client_check", loc[p])
    /\ UNCHANGED <<stores, last>>

\* lines 32-39: the loop test and, inside the loop, the dial and the test of
\* its error.
NewRedditClient_Dial(p) ==
    /\ pc[p] = "client_dial"
    /\ IF loc[p].i < 3
       THEN \E outcome \in {OK, DialError(loc[p].i)} :
                Goto(p, IF outcome = OK THEN "client_check" ELSE "client_sleep",
                     [loc[p] EXCEPT !.err = outcome, !.attempts = Append(@, outcome)])
       ELSE Goto(p, "client_check", loc[p])
    /\ UNCHANGED <<stores, last>>

\* line 40 and the loop's i++.
NewRedditClient_Sleep(p) ==
    /\ pc[p] = "client_sleep"
    /\ Goto(p, "client_dial", [loc[p] EXCEPT !.i = @ + 1])
    /\ UNCHANGED <<stores, last>>

\* lines 42-57: `if err != nil { cancel(); return nil, err }`, else the
\* client is built and returned.
NewRedditClient_Check(p) ==
    /\ pc[p] = "client_check"
    /\ IF loc[p].err # OK
       THEN Goto(p, "client_fail", [loc[p] EXCEPT !.cancelled = TRUE])
       ELSE Return(p, OK, "RedditClient")
    /\ UNCHANGED <<stores, last>>

NewRedditClient_Fail(p) ==
    /\ pc[p] = "client_fail"
    /\ Return(p, loc[p].err, Nil)
    /\ UNCHANGED <<stores, last>>

\* ------------------------------------------------------------ the simulator
\* Simulator.Start has run: simulateUsers (simulator.go:134-142) has done
\* wg.Add(1) and `go` for every user, and each goroutine runs
\* simulateUserActivity (144-177): a ticker and a loop around a select on
\* s.stopChan and ticker.C.  The goroutine of user p is p.

SimLabels == {"sim_select", "sim_rng", "sim_activity", "sim_done"}

\* The five activities of the switch at lines 163-174.
Activities ==
    {"simulatePosting", "simulateCommenting", "simulateVoting", "simulateRepost",
     "simulateDirectMessage"}

SimStep(p, label, op) ==
    /\ pc' = [pc EXCEPT ![p] = label]
    /\ loc' = [loc EXCEPT ![p] = [NoLocals EXCEPT !.op = op]]
    /\ UNCHANGED <<stores, last, calls, seen, metrics>>

\* The runtime's timer sends on ticker.C, a channel of capacity 1, until the
\* deferred ticker.Stop() of a returning goroutine.
Ticker_Fire(p) ==
    /\ ~sim.panicked
    /\ pc[p] \in SimLabels \ {"sim_done"}
    /\ ~sim.ticker[p]
    /\ sim' = [sim EXCEPT !.ticker[p] = TRUE]
    /\ UNCHANGED <<stores, last, pc, loc, calls, seen, metrics>>

\* `case <-s.stopChan: return` (lines 150-151): the receive from the closed
\* channel, then the deferred ticker.Stop() and s.wg.Done().
Select_Stop(p) ==
    /\ ~sim.panicked
    /\ pc[p] = "sim_select"
    /\ sim.stopChan = "closed"
    /\ sim' = [sim EXCEPT !.wg = @ - 1]
    /\ SimStep(p, "sim_done", "simulateUserActivity")

\* `case <-ticker.C:` (line 153): the receive of the waiting tick.  When
\* both cases are ready the select takes either.
Select_Ticker(p) ==
    /\ ~sim.panicked
    /\ pc[p] = "sim_select"
    /\ sim.ticker[p]
    /\ sim' = [sim EXCEPT !.ticker[p] = FALSE]
    /\ SimStep(p, "sim_rng", "simulateUserActivity")

\* Lines 155-174: isActive from s.rng.Float64(), the Store in activeUsers,
\* `continue` when not active, else the activity s.rng.Intn(5) picks.
Rng(p) ==
    /\ ~sim.panicked
    /\ pc[p] = "sim_rng"
    /\ \E isActive \in BOOLEAN :
          /\ sim' = [sim EXCEPT !.activeUsers[p] = IF isActive THEN "active" ELSE "inactive"]
          /\ IF ~isActive
             THEN SimStep(p, "sim_select", "simulateUserActivity")
             ELSE \E activity \in Activities : SimStep(p, "sim_activity", activity)

\* s.rng is one *rand.Rand (made at line 42) used by every goroutine with no
\* lock: two goroutines inside it race on the source's tap and feed indices,
\* and besides any value the call can index its vector out of range, which
\* panics and ends the process.
Rng_Panic(p) ==
    /\ ~sim.panicked
    /\ pc[p] = "sim_rng"
    /\ \E q \in Procs \ {p} : pc[q] = "sim_rng"
    /\ sim' = [sim EXCEPT !.panicked = TRUE]
    /\ UNCHANGED <<stores, last, pc, loc, calls, seen, metrics>>

\* The activity returns: its client calls have returned (their effect on the
\* engine is not kept here).
Activity_Return(p) ==
    /\ ~sim.panicked
    /\ pc[p] = "sim_activity"
    /\ UNCHANGED sim
    /\ SimStep(p, "sim_select", "simulateUserActivity")

\* Simulator.Stop, lines 61-65: close(s.stopChan), then s.wg.Wait().
Stop_Close ==
    /\ ~sim.panicked
    /\ sim.stop = "ready"
    /\ sim' = [sim EXCEPT !.stopChan = "closed", !.stop = "wait"]
    /\ UNCHANGED <<stores, last, pc, loc, calls, seen, metrics>>

Stop_Wait ==
    /\ ~sim.panicked
    /\ sim.stop = "wait"
    /\ sim.wg = 0
    /\ sim' = [sim EXCEPT !.stop = "returned"]
    /\ UNCHANGED <<stores, last, pc, loc, calls, seen, metrics>>

\* Goroutines registering accounts concurrently on a new engine.
NextRegister ==
    \E p \in Procs :
        \/ \E username \in Usernames : RegisterAccount_Call(p, username, SomePassword)
        \/ RegisterAccount_Range(p)
        \/ RegisterAccount_Store(p)

SpecRegister == Init /\ [][NextRegister]_vars

\* Goroutines voting concurrently on the post and the comment of InitVote.
NextVoteConc ==
    \E p \in Procs :
        \/ \E userID \in StoredOrNot("user", users),
              targetID \in StoredOrNot("post", posts) \cup DOMAIN comments,
              isUpvote \in BOOLEAN :
              Vote_Call(p, userID, targetID, isUpvote)
        \/ Vote_LoadTarget(p)
        \/ Vote_LoadVote(p)
        \/ Vote_Compare(p)
        \/ Vote_IncRead(p)
        \/ Vote_IncWrite(p)
        \/ Vote_DecRead(p)
        \/ Vote_DecWrite(p)
        \/ Vote_SetVote(p)
        \/ Vote_StoreVote(p)

SpecVoteConc == InitVote /\ [][NextVoteConc]_vars

\* The engine after RegisterAccount("alice"), RegisterAccount("bob") and
\* CreateSubReddit by the first user: one community, its creator the member.
InitPost ==
    /\ users = (<<"user", 1>> :> NewUser("alice", SomePassword)) @@ (<<"user", 2>> :> NewUser("bob", SomePassword))
    /\ subreddits = (<<"sub", 1>> :> NewSubReddit(<<"user", 1>>))
    /\ posts = EmptyMap
    /\ comments = EmptyMap
    /\ votes = EmptyMap
    /\ voteObjs = EmptyMap
    /\ messages = EmptyMap
    /\ last = NoCall
    /\ pc = [p \in Procs |-> "idle"]
    /\ loc = [p \in Procs |-> NoLocals]
    /\ calls = [p \in Procs |-> 0]
    /\ seen = [p \in Procs |-> {}]
    /\ metrics = NoMetrics
    /\ sim = NoSim

\* Goroutines joining, leaving and posting concurrently.
NextPostConc ==
    \E p \in Procs :
        \/ \E userID \in StoredOrNot("user", users), subredditID \in StoredOrNot("sub", subreddits) :
              JoinSubReddit_Call(p, userID, subredditID)
        \/ JoinSubReddit_Load(p)
        \/ JoinSubReddit_Store(p)
        \/ \E userID \in StoredOrNot("user", users), subredditID \in StoredOrNot("sub", subreddits) :
              LeaveSubReddit_Call(p, userID, subredditID)
        \/ LeaveSubReddit_Load(p)
        \/ LeaveSubReddit_Delete(p)
        \/ \E authorID \in StoredOrNot("user", users), subredditID \in StoredOrNot("sub", subreddits) :
              CreatePost_Call(p, authorID, subredditID)
        \/ CreatePost_Load(p)
        \/ CreatePost_CheckMember(p)
        \/ CreatePost_Store(p)

SpecPostConc == InitPost /\ [][NextPostConc]_vars

\* Goroutines creating communities while others join them and post in them,
\* from the engine with two users and no community.  No goroutine calls
\* LeaveSubReddit.
InitSub ==
    /\ users = (<<"user", 1>> :> NewUser("alice", SomePassword)) @@
               (<<"user", 2>> :> NewUser("bob", SomePassword))
    /\ subreddits = EmptyMap
    /\ posts = EmptyMap
    /\ comments = EmptyMap
    /\ votes = EmptyMap
    /\ voteObjs = EmptyMap
    /\ messages = EmptyMap
    /\ last = NoCall
    /\ pc = [p \in Procs |-> "idle"]
    /\ loc = [p \in Procs |-> NoLocals]
    /\ calls = [p \in Procs |-> 0]
    /\ seen = [p \in Procs |-> {}]
    /\ metrics = NoMetrics
    /\ sim = NoSim

\* The calls the goroutines have started between them, and the model's cap
\* on it for the runs where a bound per goroutine is not enough.
CallsStarted ==
    LET sum[n \in 0..NProcs] == IF n = 0 THEN 0 ELSE sum[n - 1] + calls[n]
    IN sum[NProcs]

MayCall == CallsStarted <= MaxCalls

NextSubConc ==
    \E p \in Procs :
        \/ \E creatorID \in StoredOrNot("user", users) :
              MayCall /\ CreateSubReddit_Call(p, creatorID)
        \/ CreateSubReddit_Load(p)
        \/ CreateSubReddit_Store(p)
        \/ \E userID \in DOMAIN users, subredditID \in DOMAIN subreddits :
              MayCall /\ JoinSubReddit_Call(p, userID, subredditID)
        \/ JoinSubReddit_Load(p)
        \/ JoinSubReddit_Store(p)
        \/ \E authorID \in DOMAIN users, subredditID \in DOMAIN subreddits :
              MayCall /\ CreatePost_Call(p, authorID, subredditID)
        \/ CreatePost_Load(p)
        \/ CreatePost_CheckMember(p)
        \/ CreatePost_Store(p)

SpecSubConc == InitSub /\ [][NextSubConc]_vars

\* Goroutines posting and leaving while others read posts, from the engine
\* of InitPost.
NextReadConc ==
    \E p \in Procs :
        \/ \E authorID \in StoredOrNot("user", users), subredditID \in StoredOrNot("sub", subreddits) :
              MayCall /\ CreatePost_Call(p, authorID, subredditID)
        \/ CreatePost_Load(p)
        \/ CreatePost_CheckMember(p)
        \/ CreatePost_Store(p)
        \/ \E userID \in DOMAIN users, subredditID \in DOMAIN subreddits :
              MayCall /\ LeaveSubReddit_Call(p, userID, subredditID)
        \/ LeaveSubReddit_Load(p)
        \/ LeaveSubReddit_Delete(p)
        \/ \E postID \in StoredOrNot("post", posts) : MayCall /\ GetPost_Call(p, postID)
        \/ GetPost_Load(p)
        \/ \E subredditID \in DOMAIN subreddits : MayCall /\ ListPosts_Call(p, subredditID)
        \/ ListPosts_Range(p)
        \/ \E userID \in DOMAIN users : MayCall /\ GetFeed_Call(p, userID)
        \/ GetFeed_RangeSubreddits(p)
        \/ GetFeed_RangePosts(p)

SpecReadConc == InitPost /\ [][NextReadConc]_vars

SpecRpc == InitPost /\ [][NextRpc]_vars

\* Goroutines of the gRPC server handling JoinSubreddit and CreatePost
\* requests concurrently, for stored users and stored and unknown communities.
NextMetrics ==
    \E p \in Procs :
        \/ \E userID \in DOMAIN users, subredditID \in StoredOrNot("sub", subreddits) :
              MayCall /\ RedditServer_JoinSubreddit_Call(p, userID, subredditID)
        \/ JoinSubReddit_Load(p)
        \/ JoinSubReddit_Store(p)
        \/ \E authorID \in DOMAIN users, subredditID \in DOMAIN subreddits :
              MayCall /\ RedditServer_CreatePost_Call(p, authorID, subredditID)
        \/ CreatePost_Load(p)
        \/ CreatePost_CheckMember(p)
        \/ CreatePost_Store(p)
        \/ RecordError(p)
        \/ RecordLatency(p)

SpecMetrics == InitPost /\ [][NextMetrics]_vars

\* Goroutines constructing clients, each on its own.
NextDial ==
    \E p \in Procs :
        \/ MayCall /\ NewRedditClient_Call(p)
        \/ NewRedditClient_Dial(p)
        \/ NewRedditClient_Sleep(p)
        \/ NewRedditClient_Check(p)
        \/ NewRedditClient_Fail(p)

\* A goroutine inside NewRedditClient keeps running: the dial returns within
\* its timeout and the sleep ends.
SpecDial ==
    /\ Init /\ [][NextDial]_vars
    /\ \A p \in Procs :
          /\ WF_vars(NewRedditClient_Dial(p))
          /\ WF_vars(NewRedditClient_Sleep(p))
          /\ WF_vars(NewRedditClient_Check(p))
          /\ WF_vars(NewRedditClient_Fail(p))

\* The simulator after Start(): the users registered and a community made,
\* one activity goroutine per simulated user at its select, Stop not called.
InitSim ==
    /\ users = (<<"user", 1>> :> NewUser("alice", SomePassword)) @@
               (<<"user", 2>> :> NewUser("bob", SomePassword))
    /\ subreddits = (<<"sub", 1>> :> NewSubReddit(<<"user", 1>>))
    /\ posts = EmptyMap
    /\ comments = EmptyMap
    /\ votes = EmptyMap
    /\ voteObjs = EmptyMap
    /\ messages = EmptyMap
    /\ last = NoCall
    /\ pc = [p \in Procs |-> "sim_select"]
    /\ loc = [p \in Procs |-> [NoLocals EXCEPT !.op = "simulateUserActivity"]]
    /\ calls = [p \in Procs |-> 0]
    /\ seen = [p \in Procs |-> {}]
    /\ metrics = NoMetrics
    /\ sim = [NoSim EXCEPT !.wg = NProcs, !.stop = "ready"]

NextSim ==
    \/ Stop_Close
    \/ Stop_Wait
    \/ \E p \in Procs :
          \/ Ticker_Fire(p)
          \/ Select_Stop(p)
          \/ Select_Ticker(p)
          \/ Rng(p)
          \/ Rng_Panic(p)
          \/ Activity_Return(p)

\* A goroutine that can run does run, and Stop's own goroutine as well; an
\* activity returns (its client calls are taken to return); and the select,
\* which picks among its ready cases at random, does not pass over the
\* closed stopChan for ever.
SpecSim ==
    /\ InitSim /\ [][NextSim]_vars
    /\ WF_vars(Stop_Wait)
    /\ \A p \in Procs :
          /\ SF_vars(Select_Stop(p))
          /\ WF_vars(Rng(p))
          /\ WF_vars(Activity_Return(p))

\* Goroutines reading the feed while others join, leave and post.
NextFeedConc ==
    \/ NextPostConc
    \/ \E p \in Procs :
          \/ \E userID \in StoredOrNot("user", users) : GetFeed_Call(p, userID)
          \/ GetFeed_RangeSubreddits(p)
          \/ GetFeed_RangePosts(p)

SpecFeedConc == InitPost /\ [][NextFeedConc]_vars

\* ------------------------------------------------------------------ claims

\* The post or comment record that owns targetID (posts are looked up first).
TargetRec(targetID) ==
    IF targetID \in DOMAIN posts THEN posts[targetID] ELSE comments[targetID]

StoredTargets == DOMAIN posts \cup DOMAIN comments

\* The vote records on targetID with the given polarity.
RecordsOn(targetID, isUpvote) ==
    {k \in DOMAIN votes : k[2] = targetID /\ VoteRecord(k).IsUpvote = isUpvote}

\* Every goroutine has made exactly one call, and it has returned.
EachCalledOnce == \A p \in Procs : pc[p] = "idle" /\ calls[p] = 1

\* C1: however concurrent RegisterAccount calls interleave, no two stored
\* users share a username, and when every goroutine has made one call, all
\* with the same username, exactly one of them got a User and the others the
\* username-taken error.
C1_UniqueUsernames ==
    /\ \A a, b \in DOMAIN users : users[a].Username = users[b].Username => a = b
    /\ \A name \in Usernames :
          (EachCalledOnce /\ \A p \in Procs : loc[p].username = name) =>
             /\ Cardinality({p \in Procs : loc[p].err = OK}) = 1
             /\ \A p \in Procs : loc[p].err \in {OK, ErrUsernameExists}

\* C2: when every goroutine has made one call, Vote(user, T, up), the users
\* all different, on a target T that had no votes, and all have returned,
\* T has upvotes = number of callers and downvotes = 0.
C2_NoLostUpvote ==
    \A t \in StoredTargets :
        ( /\ EachCalledOnce
          /\ \A p \in Procs : loc[p].op = "Vote" /\ loc[p].targetID = t /\ loc[p].isUpvote
          /\ \A p, q \in Procs : p # q => loc[p].userID # loc[q].userID )
        => /\ TargetRec(t).Upvotes = NProcs
           /\ TargetRec(t).Downvotes = 0

\* C3: when every goroutine has made one call, a Vote by the same user on the
\* same target (which had no votes), and all have returned, the pair has one
\* vote record and the user counts exactly once, in the bucket of the
\* recorded polarity.
C3_SameUserCountsOnce ==
    \A u \in StoredOrNot("user", users), t \in StoredTargets :
        ( /\ EachCalledOnce
          /\ \A p \in Procs : loc[p].op = "Vote" /\ loc[p].userID = u /\ loc[p].targetID = t )
        => /\ VoteID(u, t) \in DOMAIN votes
           /\ TargetRec(t).Upvotes = (IF VoteRecord(VoteID(u, t)).IsUpvote THEN 1 ELSE 0)
           /\ TargetRec(t).Downvotes = (IF VoteRecord(VoteID(u, t)).IsUpvote THEN 0 ELSE 1)

\* C4, first half: no counter of a post or comment is ever negative.
C4_NonNegative ==
    \A t \in StoredTargets : TargetRec(t).Upvotes >= 0 /\ TargetRec(t).Downvotes >= 0

\* C4, second half: upvotes + downvotes of a target never exceeds the number
\* of vote records for it.
C4_SumWithinRecords ==
    \A t \in StoredTargets :
        TargetRec(t).Upvotes + TargetRec(t).Downvotes
            <= Cardinality({k \in DOMAIN votes : k[2] = t})

\* C4: in every reachable state, the intermediate states of concurrent Vote
\* calls included, both counters of every target are >= 0 and their sum is
\* at most the number of vote records for the target.
C4_CountersBounded == C4_NonNegative /\ C4_SumWithinRecords

\* C4 between calls: the sum bound of C4 in the states where no Vote call is
\* in progress.
C4_SumWithinRecordsAtRest == (\A p \in Procs : pc[p] = "idle") => C4_SumWithinRecords

\* C9: a post enters the post store only at a moment when its author is a
\* member of its community, whatever LeaveSubReddit calls run beside the
\* CreatePost.
C9_PostOnlyWhileMember ==
    [][\A id \in DOMAIN posts' \ DOMAIN posts :
         posts'[id].AuthorID \in subreddits[posts'[id].SubRedditID].Members
      ]_vars

\* C11: a GetFeed call that ran beside JoinSubReddit, LeaveSubReddit and
\* CreatePost calls returns the set of posts that was the feed of its user in
\* some one state between the call's start and its return.
C11_FeedIsSnapshot ==
    \A p \in Procs :
        (pc[p] = "idle" /\ loc[p].op = "GetFeed") => loc[p].val \in seen[p]

\* C12: every stored comment without a parent has depth 0 and every stored
\* comment with a parent has the parent's depth + 1 (so a comment, a reply to
\* it and a reply to the reply have depths 0, 1, 2).
C12_DepthIsParentPlusOne ==
    \A c \in DOMAIN comments :
        comments[c].Depth =
            IF comments[c].ParentID = Nil THEN 0 ELSE comments[comments[c].ParentID].Depth + 1

\* C13: for a stored message m, GetMessage(U, m) by any id U that is neither
\* m's sender nor m's recipient returns the unauthorized error and not the
\* message; by the sender or the recipient it returns nil and m.
C13_OnlyPartiesRead ==
    [][\A u \in StoredOrNot("user", users), m \in DOMAIN messages :
         last'.op = "GetMessage" /\ GetMessage(u, m) =>
           IF u # messages[m].FromID /\ u # messages[m].ToID
           THEN last'.err = ErrUnauthorized /\ last'.val = {}
           ELSE last'.err = OK /\ last'.val = m
      ]_vars

\* C13's case: GetMessage has just refused a caller, and every stored
\* message is from one user to another: the caller was a third id.
C13_Witness ==
    /\ last.op = "GetMessage" /\ last.err = ErrUnauthorized
    /\ DOMAIN messages # {}
    /\ \A m \in DOMAIN messages :
          messages[m].FromID # messages[m].ToID

\* C14: a call that returns an error leaves every store as it was: users,
\* communities and member sets, posts, comments, votes, counters, messages.
C14_ErrorsChangeNothing ==
    [][last'.err # OK => UNCHANGED stores]_vars

\* C14's case: a Vote on an unknown target has failed in an engine that
\* holds a vote record, and the record and the counters are as they were.
C14_Witness ==
    /\ last.op = "Vote" /\ last.err = ErrTargetNotFound
    /\ \E k \in DOMAIN votes :
          TargetRec(k[2]).Upvotes + TargetRec(k[2]).Downvotes = 1

\* The stored users with this username.
UsersNamed(username) == {id \in DOMAIN users : users[id].Username = username}

\* RegisterAccount has stored exactly one new user, with this username and
\* karma 0, and returned it.
StoredOneUser(username) ==
    /\ last'.err = OK
    /\ last'.val \notin DOMAIN users
    /\ DOMAIN users' = DOMAIN users \cup {last'.val}
    /\ \A id \in DOMAIN users : users'[id] = users[id]
    /\ users'[last'.val].Username = username
    /\ users'[last'.val].Karma = 0

\* C15 as claimed: a sequential RegisterAccount(name, pw) returns the
\* username-taken error iff some stored user has exactly that username;
\* otherwise it stores exactly one new user with that username and karma 0.
C15_TakenOrStored ==
    [][\A username \in {"alice", "Alice", "bob"}, password \in Passwords :
         last'.op = "RegisterAccount" /\ RegisterAccount(username, password) =>
           /\ (last'.err = ErrUsernameExists) <=> (UsersNamed(username) # {})
           /\ UsersNamed(username) = {} => StoredOneUser(username)
      ]_vars

\* C15 as amended: ... iff some stored user has exactly that username;
\* otherwise, when bcrypt hashes the password, it stores exactly one new user
\* with that username and karma 0, and when bcrypt refuses the password it
\* returns bcrypt's error and stores nothing.
C15_TakenOrRefusedOrStored ==
    [][\A username \in {"alice", "Alice", "bob"}, password \in Passwords :
         last'.op = "RegisterAccount" /\ RegisterAccount(username, password) =>
           /\ (last'.err = ErrUsernameExists) <=> (UsersNamed(username) # {})
           /\ (last'.err # OK) => UNCHANGED stores
           /\ UsersNamed(username) = {} =>
                \/ StoredOneUser(username)
                \/ last'.err = ErrPasswordTooLong /\ TooLong(password)
           /\ (UsersNamed(username) = {} /\ ~TooLong(password)) => StoredOneUser(username)
      ]_vars

\* C15's case: "alice" and "Alice" are both registered, the second just now.
C15_Witness ==
    /\ last.op = "RegisterAccount" /\ last.err = OK
    /\ UsersNamed("alice") # {} /\ UsersNamed("Alice") # {}

\* C16 as claimed: AuthenticateUser(name, pw) returns not-found when no user
\* has the username; otherwise it returns the id of the user registered under
\* name iff pw is the password given at that registration, and the
\* bad-credential error when pw differs; it changes no store.
C16_IdIffSamePassword ==
    [][\A username \in {"alice", "Alice", "bob"}, password \in Passwords :
         last'.op = "AuthenticateUser" /\ AuthenticateUser(username, password) =>
           /\ UNCHANGED stores
           /\ UsersNamed(username) = {} => last'.err = ErrUserNotFound
           /\ \A id \in UsersNamed(username) :
                IF users[id].Password.hashOf = password
                THEN last'.err = OK /\ last'.val = id
                ELSE last'.err = ErrInvalidPassword
      ]_vars

\* C16 as amended: ... iff bcrypt accepts pw for the stored hash, which it
\* does for the registration password and for every password it reads the
\* same key from (one that differs only after the 72nd byte).
C16_IdIffSameKey ==
    [][\A username \in {"alice", "Alice", "bob"}, password \in Passwords :
         last'.op = "AuthenticateUser" /\ AuthenticateUser(username, password) =>
           /\ UNCHANGED stores
           /\ UsersNamed(username) = {} => last'.err = ErrUserNotFound
           /\ \A id \in UsersNamed(username) :
                /\ users[id].Password.hashOf = password => last'.err = OK
                /\ IF bcryptKey(users[id].Password.hashOf) = bcryptKey(password)
                   THEN last'.err = OK /\ last'.val = id
                   ELSE last'.err = ErrInvalidPassword
      ]_vars

\* C16's case: a login has just succeeded in an engine that holds two
\* accounts with different passwords.
C16_Witness ==
    /\ last.op = "AuthenticateUser" /\ last.err = OK
    /\ \E a, b \in DOMAIN users :
          bcryptKey(users[a].Password.hashOf) # bcryptKey(users[b].Password.hashOf)

\* C17: while no LeaveSubReddit runs, in every interleaving, from the step
\* that makes a new community visible on, its creator is in its member set
\* (so no CreatePost by the creator in it is refused as not-a-member); and a
\* CreateSubReddit with an unknown creator id fails and stores no community.
C17_CreatorIsMemberWhenVisible ==
    [][\A p \in Procs :
         /\ (pc'[p] = "idle" /\ loc'[p].op = "CreateSubReddit" /\ loc'[p].err = OK) =>
               /\ loc'[p].val \in DOMAIN subreddits'
               /\ loc'[p].userID \in subreddits'[loc'[p].val].Members
               /\ \A q \in Procs :
                     ( /\ loc'[q].op = "CreatePost" /\ pc'[q] = "idle"
                       /\ loc'[q].userID = loc'[p].userID
                       /\ loc'[q].subredditID = loc'[p].val )
                     => loc'[q].err # ErrNotMember
         /\ (CreateSubReddit_Load(p) /\ loc[p].userID \notin DOMAIN users) =>
               /\ loc'[p].err = ErrCreatorNotFound /\ pc'[p] = "idle"
               /\ subreddits' = subreddits
         /\ DOMAIN subreddits' # DOMAIN subreddits =>
               \E q \in Procs : loc[q].op = "CreateSubReddit" /\ loc[q].userID \in DOMAIN users
      ]_vars

\* C17's case: a goroutine's CreateSubReddit has returned a community in
\* which another goroutine's CreatePost by the creator has since been
\* accepted, and the other user has joined it.
C17_Witness ==
    \E p, q \in Procs :
        /\ pc[p] = "idle" /\ loc[p].op = "CreateSubReddit" /\ loc[p].err = OK
        /\ pc[q] = "idle" /\ loc[q].op = "CreatePost" /\ loc[q].err = OK
        /\ loc[q].userID = loc[p].userID /\ loc[q].subredditID = loc[p].val
        /\ Cardinality(subreddits[loc[p].val].Members) = 2

\* C18: for a stored user U and a stored community S, JoinSubReddit(U, S)
\* returns nil and leaves U a member; when U already is a member it changes
\* no store at all, so a second join adds nothing to the first.
C18_JoinIsIdempotent ==
    [][\A u \in DOMAIN users, s \in DOMAIN subreddits :
         last'.op = "JoinSubReddit" /\ JoinSubReddit(u, s) =>
           /\ last'.err = OK
           /\ subreddits'[s].Members = subreddits[s].Members \cup {u}
           /\ \A x \in DOMAIN subreddits \ {s} : subreddits'[x] = subreddits[x]
           /\ u \in subreddits[s].Members => UNCHANGED stores
      ]_vars

\* C18's case: a join has just returned nil in an engine where every stored
\* user already is a member of every stored community, two users at least:
\* only a repeated join leaves this state as it is.
C18_Witness ==
    /\ last.op = "JoinSubReddit" /\ last.err = OK
    /\ Cardinality(DOMAIN users) >= 2 /\ DOMAIN subreddits # {}
    /\ \A s \in DOMAIN subreddits : subreddits[s].Members = DOMAIN users

\* C19: LeaveSubReddit(U, S) on a stored community S returns nil and leaves
\* S's member set without U and otherwise as it was (unchanged when U was no
\* member, also for an id U that is no user's); on an unknown S it returns
\* the not-found error; it changes nothing else.
C19_LeaveRemovesMember ==
    [][\A u \in StoredOrNot("user", users), s \in StoredOrNot("sub", subreddits) :
         last'.op = "LeaveSubReddit" /\ LeaveSubReddit(u, s) =>
           /\ UNCHANGED <<users, posts, comments, votes, voteObjs, messages>>
           /\ IF s \in DOMAIN subreddits
              THEN /\ last'.err = OK
                   /\ subreddits'[s].Members = subreddits[s].Members \ {u}
                   /\ \A x \in DOMAIN subreddits \ {s} : subreddits'[x] = subreddits[x]
                   /\ u \notin subreddits[s].Members => UNCHANGED stores
              ELSE last'.err = ErrSubredditNotFound /\ UNCHANGED stores
      ]_vars

\* C19's case: a leave has just returned nil and a stored community has no
\* member left, its creator gone.
C19_Witness ==
    /\ last.op = "LeaveSubReddit" /\ last.err = OK
    /\ \E s \in DOMAIN subreddits : subreddits[s].Members = {}

\* C20: CreatePost with an unknown author returns author-not-found whatever
\* the community id; with a stored author and an unknown community it returns
\* community-not-found; it returns not-a-member only when both are stored.
C20_CheckOrder ==
    [][\A a \in StoredOrNot("user", users), s \in StoredOrNot("sub", subreddits) :
         last'.op = "CreatePost" /\ CreatePost(a, s) =>
           /\ a \notin DOMAIN users => last'.err = ErrAuthorNotFound
           /\ (a \in DOMAIN users /\ s \notin DOMAIN subreddits) =>
                last'.err = ErrSubredditNotFound
           /\ last'.err = ErrNotMember => (a \in DOMAIN users /\ s \in DOMAIN subreddits)
      ]_vars

\* C20's case: CreatePost has just answered author-not-found in an engine
\* that holds users and no community: the community id was unknown too.
C20_Witness ==
    /\ last.op = "CreatePost" /\ last.err = ErrAuthorNotFound
    /\ DOMAIN users # {} /\ DOMAIN subreddits = {}

\* C21: CreateComment returns author-not-found for an unknown author, else
\* post-not-found for an unknown post, else parent-not-found for a parent id
\* that is given and is no stored comment's, and then stores no comment; it
\* returns nil exactly when none of the three applies, and then stores one.
C21_CommentChecks ==
    [][\A a \in StoredOrNot("user", users), p \in StoredOrNot("post", posts),
          c \in {Nil} \cup StoredOrNot("comment", comments) :
         last'.op = "CreateComment" /\ CreateComment(a, p, c) =>
           /\ a \notin DOMAIN users => last'.err = ErrAuthorNotFound
           /\ (a \in DOMAIN users /\ p \notin DOMAIN posts) => last'.err = ErrPostNotFound
           /\ (a \in DOMAIN users /\ p \in DOMAIN posts /\ c # Nil /\ c \notin DOMAIN comments) =>
                last'.err = ErrParentNotFound
           /\ last'.err = OK <=>
                (a \in DOMAIN users /\ p \in DOMAIN posts /\ (c = Nil \/ c \in DOMAIN comments))
           /\ last'.err # OK => UNCHANGED stores
           /\ last'.err = OK =>
                /\ DOMAIN comments' = DOMAIN comments \cup {last'.val}
                /\ last'.val \notin DOMAIN comments
      ]_vars

\* C21's case: CreateComment has just refused a parent id that is no stored
\* comment's, in an engine that holds comments.
C21_Witness ==
    /\ last.op = "CreateComment" /\ last.err = ErrParentNotFound
    /\ DOMAIN comments # {}

\* C22: Vote(U, T, p) with T the id of no stored post and of no stored
\* comment returns target-not-found and changes no store: no vote record is
\* created and no counter moves.
C22_UnknownTargetRefused ==
    [][\A u \in StoredOrNot("user", users),
          t \in StoredOrNot("post", posts) \cup StoredOrNot("comment", comments),
          b \in BOOLEAN :
         (last'.op = "Vote" /\ Vote(u, t, b) /\ t \notin DOMAIN posts \cup DOMAIN comments) =>
           /\ last'.err = ErrTargetNotFound
           /\ UNCHANGED stores
      ]_vars

\* C22's case: Vote has just answered target-not-found in an engine where
\* votes have been cast on the stored targets.
C22_Witness ==
    /\ last.op = "Vote" /\ last.err = ErrTargetNotFound
    /\ DOMAIN votes # {}

\* Both endpoints of every stored DirectMessage are stored users.
EndpointsExist ==
    \A m \in DOMAIN messages :
        messages[m].FromID \in DOMAIN users /\ messages[m].ToID \in DOMAIN users

\* C23: SendDirectMessage stores a message only when from and to both are
\* stored users, answering sender-not-found for an unknown sender (whatever
\* the recipient) and recipient-not-found for a stored sender and an unknown
\* recipient; and in every reachable state both endpoints of every stored
\* message are stored users.
C23_EndpointsAreUsers ==
    /\ []EndpointsExist
    /\ [][\A f \in StoredOrNot("user", users), t \in StoredOrNot("user", users) :
            last'.op = "SendDirectMessage" /\ SendDirectMessage(f, t) =>
              /\ f \notin DOMAIN users => last'.err = ErrSenderNotFound
              /\ (f \in DOMAIN users /\ t \notin DOMAIN users) => last'.err = ErrRecipientNotFound
              /\ messages' # messages =>
                   (f \in DOMAIN users /\ t \in DOMAIN users /\ last'.err = OK)
         ]_vars

\* C23's case: messages are stored, and a send with an unknown sender has
\* just been refused.
C23_Witness ==
    /\ last.op = "SendDirectMessage" /\ last.err = ErrSenderNotFound
    /\ \E m \in DOMAIN messages : messages[m].FromID # messages[m].ToID

\* C24: GetUserMessages(U) returns every stored message whose from_id or
\* to_id is U exactly once, and no other message; it changes no store.
C24_ExactlyOwnMessages ==
    [][\A u \in StoredOrNot("user", users) :
         last'.op = "GetUserMessages" /\ GetUserMessages(u) =>
           /\ DOMAIN last'.val =
                {m \in DOMAIN messages : messages[m].FromID = u \/ messages[m].ToID = u}
           /\ \A m \in DOMAIN last'.val : last'.val[m] = 1
           /\ last'.err = OK
           /\ UNCHANGED stores
      ]_vars

\* C24's case: a listing has just returned a message between its user and
\* another, leaving out a stored message that user has no part in.
C24_Witness ==
    /\ last.op = "GetUserMessages"
    /\ \E m \in DOMAIN last.val : messages[m].FromID # messages[m].ToID
    /\ DOMAIN messages \ DOMAIN last.val # {}

\* C25: no step of any handler takes a user, community, post, comment,
\* message or vote record out of its store, and a step that takes a member
\* out of a community's member set is a step of LeaveSubReddit.
C25_NothingIsDeleted ==
    [][/\ DOMAIN users \subseteq DOMAIN users'
       /\ DOMAIN subreddits \subseteq DOMAIN subreddits'
       /\ DOMAIN posts \subseteq DOMAIN posts'
       /\ DOMAIN comments \subseteq DOMAIN comments'
       /\ DOMAIN messages \subseteq DOMAIN messages'
       /\ DOMAIN votes \subseteq DOMAIN votes'
       /\ DOMAIN voteObjs \subseteq DOMAIN voteObjs'
       /\ \A s \in DOMAIN subreddits :
            \/ subreddits[s].Members \subseteq subreddits'[s].Members
            \/ last'.op = "LeaveSubReddit"
      ]_vars

\* C25's case: a leave has just emptied a community's member set in an
\* engine that has stored a comment or a message or a vote since it began,
\* and the community's post is still there.
C25_Witness ==
    /\ last.op = "LeaveSubReddit" /\ last.err = OK
    /\ \E s \in DOMAIN subreddits :
          subreddits[s].Members = {} /\ \E id \in DOMAIN posts : posts[id].SubRedditID = s
    /\ DOMAIN comments \cup DOMAIN messages \cup DOMAIN votes # {}

\* C26: a LeaveSubReddit(U, S) step changes no store but e.subreddits and
\* there nothing but the member set of S; and ListPosts(S) returns every
\* stored post of S, GetPost every stored post, whether or not its author is
\* still a member.
C26_LeaveKeepsPosts ==
    [][/\ \A u \in StoredOrNot("user", users), s \in StoredOrNot("sub", subreddits) :
            last'.op = "LeaveSubReddit" /\ LeaveSubReddit(u, s) =>
              /\ UNCHANGED <<users, posts, comments, votes, voteObjs, messages>>
              /\ DOMAIN subreddits' = DOMAIN subreddits
              /\ \A x \in DOMAIN subreddits \ {s} : subreddits'[x] = subreddits[x]
       /\ \A s \in StoredOrNot("sub", subreddits) :
            last'.op = "ListPosts" /\ ListPosts(s) =>
              \A id \in DOMAIN posts : posts[id].SubRedditID = s => id \in last'.val
       /\ \A id \in DOMAIN posts :
            last'.op = "GetPost" /\ GetPost(id) => last'.err = OK /\ last'.val = id
      ]_vars

\* C26's case: ListPosts has just returned a post whose author is no longer
\* a member of its community, with votes cast and a comment stored.
C26_Witness ==
    /\ last.op = "ListPosts"
    /\ \E id \in last.val : posts[id].AuthorID \notin subreddits[posts[id].SubRedditID].Members
    /\ DOMAIN votes # {} /\ DOMAIN comments # {}

\* The checks of CreatePost.
PostChecks == {"author", "community", "member"}

\* The handlers that return posts.
PostReaders == {"GetPost", "ListPosts", "GetFeed"}

\* C27: in every interleaving, a step that puts a post into e.posts is the
\* Store of a CreatePost call that has passed its author, community and
\* membership checks, for that author and community; and the posts a
\* returning GetPost, ListPosts or GetFeed hands out are posts of e.posts.
C27_ReadersSeeCheckedPosts ==
    [][/\ \A id \in DOMAIN posts' \ DOMAIN posts :
            \E p \in Procs :
                /\ loc[p].op = "CreatePost" /\ pc[p] # "idle" /\ pc'[p] = "idle"
                /\ loc[p].checked = PostChecks
                /\ loc'[p].err = OK /\ loc'[p].val = id
                /\ posts'[id] = NewPost(loc[p].userID, loc[p].subredditID)
       /\ \A id \in DOMAIN posts : posts'[id] = posts[id]
       /\ \A p \in Procs :
            (loc[p].op \in PostReaders /\ pc[p] # "idle" /\ pc'[p] = "idle") =>
                loc'[p].val \subseteq DOMAIN posts
      ]_vars

\* C27's case: one goroutine's CreatePost has returned a post and another's
\* reader has returned that post.
C27_Witness ==
    \E p, q \in Procs :
        /\ pc[q] = "idle" /\ loc[q].op = "CreatePost" /\ loc[q].err = OK
        /\ pc[p] = "idle" /\ loc[p].op \in PostReaders /\ loc[q].val \in loc[p].val

\* C28: a Vote on the id of a stored post leaves every comment as it was and
\* moves counters of that post only; a Vote on the id of a stored comment
\* leaves every post as it was and moves counters of that comment only; a
\* first vote moves the chosen counter of the owner of the id by one.
C28_OwnerCountersOnly ==
    [][\A u \in StoredOrNot("user", users), t \in DOMAIN posts \cup DOMAIN comments,
          b \in BOOLEAN :
         last'.op = "Vote" /\ Vote(u, t, b) =>
           /\ t \in DOMAIN posts =>
                /\ comments' = comments
                /\ \A id \in DOMAIN posts \ {t} : posts'[id] = posts[id]
                /\ VoteID(u, t) \notin DOMAIN votes =>
                     posts'[t][IncField(b)] = posts[t][IncField(b)] + 1
           /\ t \in DOMAIN comments \ DOMAIN posts =>
                /\ posts' = posts
                /\ \A id \in DOMAIN comments \ {t} : comments'[id] = comments[id]
                /\ VoteID(u, t) \notin DOMAIN votes =>
                     comments'[t][IncField(b)] = comments[t][IncField(b)] + 1
      ]_vars

\* C28's case: votes have been cast on the comment and on the post, and
\* their counters differ.
C28_Witness ==
    /\ last.op = "Vote" /\ last.err = OK
    /\ \E c \in DOMAIN comments, p \in DOMAIN posts :
          /\ comments[c].Upvotes = 2 /\ comments[c].Downvotes = 0
          /\ posts[p].Upvotes = 0 /\ posts[p].Downvotes = 1

\* C29: in every reachable state the author of every stored post is a
\* stored user and its community a stored community; the author of every
\* stored comment is a stored user, its post a stored post and its parent,
\* when it has one, a stored comment.
C29_ReferencesResolve ==
    /\ \A id \in DOMAIN posts :
          /\ posts[id].AuthorID \in DOMAIN users
          /\ posts[id].SubRedditID \in DOMAIN subreddits
    /\ \A id \in DOMAIN comments :
          /\ comments[id].AuthorID \in DOMAIN users
          /\ comments[id].PostID \in DOMAIN posts
          /\ comments[id].ParentID # Nil => comments[id].ParentID \in DOMAIN comments

\* C29's case: a reply is stored, and calls with ids that resolve to nothing
\* have been refused since.
C29_Witness ==
    /\ \E id \in DOMAIN comments : comments[id].ParentID # Nil
    /\ last.op \in {"CreatePost", "CreateComment"} /\ last.err # OK

\* The calls of RedditClient whose server handlers answer with a
\* StatusResponse.
StatusCalls == {"JoinSubReddit", "LeaveSubReddit", "Vote"}

\* C30: whenever the engine's JoinSubReddit, LeaveSubReddit or Vote returns
\* an error inside the server's handler, the RedditClient call that caused it
\* returns a non-nil error.
C30_ErrorsReachTheClient ==
    [][(last.op \in StatusCalls /\ last.err # OK /\ last'.op = "RedditClient." \o last.op)
         => last'.err # OK]_vars

\* The engine's errors of the not-found kind, and the handlers of the REST
\* path.
NotFoundErrors ==
    {ErrSubredditNotFound, ErrPostNotFound, ErrParentNotFound, ErrTargetNotFound,
     ErrUserNotFound, ErrAuthorNotFound, ErrCreatorNotFound, ErrSenderNotFound,
     ErrRecipientNotFound, ErrMessageNotFound}

RestHandlers ==
    {"handleVote", "handleCreatePost", "handleSendMessage", "handleGetPost", "handleGetMessage"}

\* C31: a REST handler whose engine call failed with a not-found error has
\* answered 404, and one whose engine call failed with the permission error
\* of GetMessage has not answered 404.
C31_NotFoundIs404 ==
    last.op \in RestHandlers =>
        /\ last.err \in NotFoundErrors => last.val = StatusNotFound
        /\ last.err = ErrUnauthorized => last.val # StatusNotFound

\* The sum of f over the endpoints.
SumOverEndpoints(f) ==
    LET RECURSIVE Sum(_)
        Sum(S) == IF S = {} THEN 0
                  ELSE LET e == CHOOSE x \in S : TRUE IN f[e] + Sum(S \ {e})
    IN Sum(Endpoints)

\* C32: when every call of the gRPC server has returned, each endpoint's
\* CallCount is the number of calls made to it and its ErrorCount the number
\* of them whose engine call failed (so ErrorCount <= CallCount), one latency
\* sample has been kept per call, and the global ErrorCount is the sum of
\* the endpoints' ErrorCounts, whatever the interleaving.
C32_MetricsCountCalls ==
    (\A p \in Procs : pc[p] = "idle") =>
        /\ \A e \in Endpoints :
              /\ metrics.EndpointStats[e].CallCount = metrics.made[e]
              /\ metrics.EndpointStats[e].ErrorCount = metrics.failed[e]
              /\ metrics.EndpointStats[e].ErrorCount <= metrics.EndpointStats[e].CallCount
        /\ metrics.latencies = SumOverEndpoints(metrics.made)
        /\ metrics.ErrorCount =
              SumOverEndpoints([e \in Endpoints |-> metrics.EndpointStats[e].ErrorCount])

\* C32's case: every call has returned; failed and successful calls have
\* been made, to both endpoints.
C32_Witness ==
    /\ \A p \in Procs : pc[p] = "idle"
    /\ \A e \in Endpoints : metrics.made[e] >= 1
    /\ \E e \in Endpoints : metrics.failed[e] >= 1
    /\ \E e \in Endpoints : metrics.failed[e] < metrics.made[e]

\* What NewRedditClient has done when it returns, by the outcomes of its
\* dials: it stopped at the first success and returned the client, or all
\* three dials failed and it returned the last one's error after cancel().
DialedAsClaimed(l) ==
    LET n == Len(l.attempts) IN
    /\ n \in 1..3
    /\ \A k \in 1..(n - 1) : l.attempts[k] # OK
    /\ l.err = l.attempts[n]
    /\ l.err = OK => (l.val = "RedditClient" /\ ~l.cancelled)
    /\ l.err # OK => (n = 3 /\ l.val = Nil /\ l.cancelled)

\* C33: NewRedditClient never makes more than 3 dial attempts; when it has
\* returned it has stopped at the first successful dial and returned a
\* client, or has seen 3 dials fail, called cancel and returned the error of
\* the third; and every call of it returns.
C33_BoundedDialRetry ==
    /\ [](\A p \in Procs :
            /\ Len(loc[p].attempts) <= 3
            /\ (pc[p] = "idle" /\ loc[p].op = "NewRedditClient") => DialedAsClaimed(loc[p]))
    /\ \A p \in Procs : (pc[p] # "idle") ~> (pc[p] = "idle")

\* C33's case: a call has returned the error of its third dial, which is not
\* the error of its second, and another has returned a client from its
\* second dial.
C33_Witness ==
    \E p, q \in Procs :
        /\ pc[p] = "idle" /\ loc[p].op = "NewRedditClient" /\ loc[p].err # OK
        /\ Len(loc[p].attempts) = 3 /\ loc[p].attempts[2] # loc[p].attempts[3]
        /\ pc[q] = "idle" /\ loc[q].op = "NewRedditClient" /\ loc[q].err = OK
        /\ Len(loc[q].attempts) = 2

\* C34: every member of every community is a stored user.
C34_MembersAreUsers ==
    \A s \in DOMAIN subreddits : subreddits[s].Members \subseteq DOMAIN users

\* C34's case: a join by an id that is no user's has been refused by a
\* community that exists, and a community holds two members.
C34_Witness ==
    /\ last.op = "JoinSubReddit" /\ last.err = ErrUserNotFound
    /\ \E s \in DOMAIN subreddits : Cardinality(subreddits[s].Members) = 2

\* What the vote record of voteID, if there is one, adds to the counter of
\* the given polarity.
Contribution(voteID, isUpvote) ==
    IF voteID \in DOMAIN votes /\ VoteRecord(voteID).IsUpvote = isUpvote THEN 1 ELSE 0

\* C35: Vote(U, T, p) for an existing post or comment T and an id U that is
\* no stored user's returns nil and leaves a vote record keyed (U, T) of
\* polarity p; and for U as for every stored user, T's counters afterwards
\* are its counters before, less what the pair's earlier record added, plus
\* one in p's bucket.
C35_UnknownVoterAccepted ==
    [][\A u \in StoredOrNot("user", users), t \in StoredTargets, up \in BOOLEAN :
         last'.op = "Vote" /\ Vote(u, t, up) =>
           /\ u \notin DOMAIN users =>
                /\ last'.err = OK
                /\ VoteID(u, t) \in DOMAIN votes'
                /\ VoteRecord(VoteID(u, t))'.IsUpvote = up
           /\ TargetRec(t)'.Upvotes =
                TargetRec(t).Upvotes - Contribution(VoteID(u, t), TRUE) + (IF up THEN 1 ELSE 0)
           /\ TargetRec(t)'.Downvotes =
                TargetRec(t).Downvotes - Contribution(VoteID(u, t), FALSE) + (IF up THEN 0 ELSE 1)
      ]_vars

\* C35's case: the only vote record is keyed by an id that is no user's, on
\* the post, which counts one upvote.
C35_Witness ==
    /\ last.op = "Vote" /\ last.err = OK
    /\ DOMAIN votes = {VoteID(<<"user", 0>>, <<"post", 1>>)}
    /\ <<"user", 0>> \notin DOMAIN users
    /\ posts[<<"post", 1>>].Upvotes = 1 /\ posts[<<"post", 1>>].Downvotes = 0

\* C36: CreateComment(author, P1, parent = c) with a stored author, a stored
\* post P1 and a stored comment c whose post is another post returns nil and
\* stores a comment with post P1 and parent c, whose parent's post is not P1.
C36_ParentOfAnotherPost ==
    [][\A a \in DOMAIN users, p1 \in DOMAIN posts, c \in DOMAIN comments :
         ( /\ last'.op = "CreateComment" /\ CreateComment(a, p1, c)
           /\ comments[c].PostID # p1 ) =>
             /\ last'.err = OK
             /\ last'.val \in DOMAIN comments' \ DOMAIN comments
             /\ comments'[last'.val].PostID = p1
             /\ comments'[last'.val].ParentID = c
             /\ comments'[c].PostID # comments'[last'.val].PostID
      ]_vars

\* C36's case: the comment just stored hangs under one post and its parent
\* under another.
C36_Witness ==
    /\ last.op = "CreateComment" /\ last.err = OK
    /\ comments[last.val].ParentID \in DOMAIN comments
    /\ comments[comments[last.val].ParentID].PostID # comments[last.val].PostID

\* A post or comment record without its two counters.
NonCounters(rec) == [f \in DOMAIN rec \ {"Upvotes", "Downvotes"} |-> rec[f]]

\* C37: Vote(U, T, p), returning nil or an error, leaves unchanged every
\* post and comment other than T, the vote record of every pair other than
\* (U, T), all users, all communities with their member sets, all messages
\* and every field of every post and comment that is no counter; it stores
\* no post and no comment, and no vote record but that of (U, T).
C37_VoteFrame ==
    [][\A u \in StoredOrNot("user", users),
          t \in StoredOrNot("post", posts) \cup StoredOrNot("comment", comments),
          b \in BOOLEAN :
         last'.op = "Vote" /\ Vote(u, t, b) =>
           /\ UNCHANGED <<users, subreddits, messages>>
           /\ DOMAIN posts' = DOMAIN posts /\ DOMAIN comments' = DOMAIN comments
           /\ \A id \in DOMAIN posts :
                 /\ NonCounters(posts'[id]) = NonCounters(posts[id])
                 /\ id # t => posts'[id] = posts[id]
           /\ \A id \in DOMAIN comments :
                 /\ NonCounters(comments'[id]) = NonCounters(comments[id])
                 /\ id # t => comments'[id] = comments[id]
           /\ DOMAIN votes \subseteq DOMAIN votes'
           /\ DOMAIN votes' \subseteq DOMAIN votes \cup {<<u, t>>}
           /\ \A k \in DOMAIN votes \ {<<u, t>>} : VoteRecord(k)' = VoteRecord(k)
      ]_vars

\* C37's case: a vote has just been cast in an engine that holds the records
\* of three other pairs, on the post and on the comment, whose counters are
\* not zero.
C37_Witness ==
    /\ last.op = "Vote" /\ last.err = OK
    /\ Cardinality(DOMAIN votes) = 4
    /\ posts[<<"post", 1>>].Upvotes + posts[<<"post", 1>>].Downvotes >= 1
    /\ comments[<<"comment", 1>>].Upvotes + comments[<<"comment", 1>>].Downvotes >= 1
    /\ \E s \in DOMAIN subreddits : subreddits[s].Members # {}

\* C38: once Stop has closed the stop channel, every activity goroutine
\* eventually returns, and Stop's wait ends and Stop returns.
C38_StopReturns ==
    /\ \A p \in Procs : (sim.stopChan = "closed") ~> (pc[p] = "sim_done")
    /\ (sim.stop = "wait") ~> (sim.stop = "returned")

\* What is left of C38 when the process may panic: Stop returns unless the
\* process has panicked.
StopReturnsUnlessPanicked ==
    (sim.stop = "wait") ~> (sim.stop = "returned" \/ sim.panicked)

\* C5: after any sequence of non-overlapping calls, every post's and comment's
\* upvotes is the number of its vote records with is_upvote = true, its
\* downvotes the number with is_upvote = false, and no (user, target) pair
\* ever received a second vote record.
C5_CountersMatchRecords ==
    /\ \A t \in StoredTargets :
          /\ TargetRec(t).Upvotes = Cardinality(RecordsOn(t, TRUE))
          /\ TargetRec(t).Downvotes = Cardinality(RecordsOn(t, FALSE))
    /\ \A o \in DOMAIN voteObjs : o[1] \in DOMAIN votes /\ votes[o[1]] = o[2] /\ o[2] = 1

\* C5's case: a post with an upvote and a downvote of two users, and a comment
\* that was voted on as well.
C5_Witness ==
    /\ posts[<<"post", 1>>].Upvotes = 1
    /\ posts[<<"post", 1>>].Downvotes = 1
    /\ comments[<<"comment", 1>>].Downvotes = 1
    /\ Cardinality(DOMAIN votes) = 3

\* C6: a vote that repeats the stored polarity returns nil and changes no
\* counter and no vote record; a first upvote adds exactly one to upvotes, so
\* from no vote two successive upvotes leave the count one higher, not two.
C6_RepeatVoteIsNoOp ==
    [][\A u \in StoredOrNot("user", users), t \in StoredTargets, up \in BOOLEAN :
         Vote(u, t, up) =>
           IF VoteID(u, t) \in DOMAIN votes
           THEN VoteRecord(VoteID(u, t)).IsUpvote = up =>
                  /\ last'.err = OK
                  /\ UNCHANGED <<posts, comments, votes, voteObjs>>
           ELSE /\ last'.err = OK
                /\ up => /\ TargetRec(t)'.Upvotes = TargetRec(t).Upvotes + 1
                         /\ TargetRec(t)'.Downvotes = TargetRec(t).Downvotes
      ]_vars

\* C6's case: one user's upvote is recorded on the post and the post counts
\* one upvote: the state a repeated Vote(u, post, up) starts and ends in.
C6_Witness ==
    /\ last.op = "Vote" /\ last.err = OK
    /\ VoteID(<<"user", 1>>, <<"post", 1>>) \in DOMAIN votes
    /\ VoteRecord(VoteID(<<"user", 1>>, <<"post", 1>>)).IsUpvote
    /\ posts[<<"post", 1>>].Upvotes = 1
    /\ Cardinality(DOMAIN votes) = 1

\* C7: a vote of the polarity opposite to the stored one adds one to the new
\* bucket, takes one from the old, keeps upvotes + downvotes, and records the
\* new polarity; a first vote adds one to its bucket and records its polarity
\* (so upvote then downvote from no vote gives upvotes 0, downvotes 1).
C7_FlipMovesOneUnit ==
    [][\A u \in StoredOrNot("user", users), t \in StoredTargets, up \in BOOLEAN :
         Vote(u, t, up) =>
           LET old == TargetRec(t)
               new == TargetRec(t)'
               k == VoteID(u, t)
           IN
           /\ last'.err = OK
           /\ k \in DOMAIN votes' /\ VoteRecord(k)'.IsUpvote = up
           /\ k \in DOMAIN votes /\ VoteRecord(k).IsUpvote # up =>
                /\ new.Upvotes = old.Upvotes + (IF up THEN 1 ELSE -1)
                /\ new.Downvotes = old.Downvotes + (IF up THEN -1 ELSE 1)
                /\ new.Upvotes + new.Downvotes = old.Upvotes + old.Downvotes
           /\ k \notin DOMAIN votes =>
                /\ new.Upvotes = old.Upvotes + (IF up THEN 1 ELSE 0)
                /\ new.Downvotes = old.Downvotes + (IF up THEN 0 ELSE 1)
      ]_vars

\* C7's case: the only vote on the comment is a downvote and the comment
\* counts upvotes 0, downvotes 1 while the same user's vote on the post is an
\* upvote: the state upvote-then-downvote ends in.
C7_Witness ==
    /\ last.op = "Vote" /\ last.err = OK
    /\ VoteID(<<"user", 2>>, <<"comment", 1>>) \in DOMAIN votes
    /\ ~VoteRecord(VoteID(<<"user", 2>>, <<"comment", 1>>)).IsUpvote
    /\ comments[<<"comment", 1>>].Upvotes = 0
    /\ comments[<<"comment", 1>>].Downvotes = 1
    /\ Cardinality(DOMAIN votes) = 1

\* C8: for a stored user A and a stored community S, CreatePost(A, S) returns
\* the not-a-member error exactly when A is not in S's member set at the call;
\* when A is a member it returns nil and stores a post of A in S; and a
\* successful JoinSubReddit(A, S) leaves A stored, S stored and A a member of
\* S, the state in which the same CreatePost(A, S) succeeds.
C8_MembershipGate ==
    [][\A a \in DOMAIN users, s \in DOMAIN subreddits :
         /\ last'.op = "CreatePost" /\ CreatePost(a, s) =>
              /\ (last'.err = ErrNotMember) <=> (a \notin subreddits[s].Members)
              /\ (last'.err # OK) => posts' = posts
              /\ a \in subreddits[s].Members =>
                   /\ last'.err = OK
                   /\ last'.val \notin DOMAIN posts
                   /\ DOMAIN posts' = DOMAIN posts \cup {last'.val}
                   /\ posts'[last'.val].AuthorID = a
                   /\ posts'[last'.val].SubRedditID = s
         /\ last'.op = "JoinSubReddit" /\ last'.err = OK /\ JoinSubReddit(a, s) =>
              /\ a \in DOMAIN users' /\ s \in DOMAIN subreddits'
              /\ a \in subreddits'[s].Members
      ]_vars

\* C8's case: CreatePost has just refused a stored user who is not a member
\* of a stored community, in an engine where a member's post was accepted.
C8_Witness ==
    /\ last.op = "CreatePost" /\ last.err = ErrNotMember
    /\ DOMAIN posts # {}
    /\ \E a \in DOMAIN users, s \in DOMAIN subreddits : a \notin subreddits[s].Members

\* C10: with no call overlapping it, GetFeed(U) returns exactly the stored
\* posts whose community has U in its member set: every such post, and no
\* post of a community U is not a member of.
C10_FeedIsSubscribedPosts ==
    [][\A u \in StoredOrNot("user", users) :
         last'.op = "GetFeed" /\ GetFeed(u) =>
           /\ last'.err = OK
           /\ last'.val = {p \in DOMAIN posts :
                             /\ posts[p].SubRedditID \in DOMAIN subreddits
                             /\ u \in subreddits[posts[p].SubRedditID].Members}
      ]_vars

\* C10's case: a feed was returned that holds a post and leaves out another
\* stored post, of a community the user is not subscribed to.
C10_Witness ==
    /\ last.op = "GetFeed"
    /\ last.val # {}
    /\ last.val # DOMAIN posts
    /\ \E p \in last.val, q \in DOMAIN posts \ last.val :
          posts[p].SubRedditID # posts[q].SubRedditID

====
